---- MODULE Spec2Model ----
(***************************************************************************)
(* mockapi: the Flask server of src/mockapi/server.py as a state machine.  *)
(* Spec, SpecIO, SpecNames and SpecList take one request at a time, one    *)
(* action per request handler; SpecThreads serves requests at once, one    *)
(* action per statement that touches shared state; SpecWatch adds the file *)
(* watcher of src/mockapi/cli.py and SpecWatchLive runs the watcher and an *)
(* editor alone; SpecValidate runs the validator of                        *)
(* src/mockapi/validate.py.                                                *)
(*                                                                         *)
(* Representation                                                          *)
(*   record (a JSON object)   a function from its field names to values;   *)
(*                            the field "id" holds an integer, every other *)
(*                            field a string                               *)
(*   list entry, not a dict   the function ScalarKey :> <string>           *)
(*   collection value         [islist, items, val]: a list of entries, or  *)
(*                            a scalar top-level value val                 *)
(*   db, counters             functions from the top-level keys            *)
(*   file                     [exists, content]: the backing file, its     *)
(*                            content the sequence of JSON tokens written  *)
(***************************************************************************)
EXTENDS Integers, Sequences, FiniteSets, TLC

\* Bounds of the model.
MaxCounter == 3    \* a Create is taken only while the counter is below it
MaxCreates == 2    \* Creates that allocate an id in one behaviour
MaxIOErrors == 1   \* transient I/O failures of save_db in one behaviour of SpecIO
NumThreads == 2    \* requests served at once in SpecThreads
MaxEdits == 3      \* writes to the file from outside in one behaviour
MaxClock == 2      \* the cache's clock stops here
DefaultTtl == 1    \* default_ttl given to the cache's constructor
LargeSize == 3     \* max_size of the cache in SpecCache
SmallSize == 2     \* max_size of the cache is at most this in SpecCacheThreads
LongTtl == 2       \* a ttl given to set in SpecCacheThreads
MaxListLen == 12   \* length of the longest list in SpecList

VARIABLES
    datafile,   \* the path create_app was given
    file,       \* the backing file
    db,         \* the in-memory document
    counters,   \* the last id allocated, per collection
    req,        \* the request being answered, NoRequest between requests
    resp,       \* the response to it
    iofail,     \* transient I/O failures the environment still has in store
    db0,        \* history: the document as loaded
    issued,     \* history: per collection, the ids given to created records, in order
    watch,      \* the file watcher: whether the file's mtime differs from the one
                \* it remembers, what it has put in app.config["DB_DATA"], whether
                \* its last parse failed, whether the clock still shows the
                \* file's mtime, and the writes from outside so far
    threads,    \* the requests served at once, each at its own line of its handler
    gone,       \* history: <<collection, id, n>> for each Delete answered 200 with no
                \* later Create on the collection, n the records that had the id
    report,     \* the run of validate_db: the document given and what came of it
    cache       \* the ThreadSafeCacheManager: its entries in the order the
                \* OrderedDict keeps them, its lock, the clock, each thread's
                \* call and position in it, and the history of uses

vars == <<datafile, file, db, counters, req, resp, iofail, db0, issued, watch, threads, gone,
          report, cache>>

(***************************************************************************)
(* JSON text, as json.dump writes it and json.loads reads it, at the level *)
(* of tokens: punctuation, quoted strings, decimal integers.               *)
(***************************************************************************)
ScalarKey == "$scalar"

EmptyDict == [k \in {} |-> ""]

IsDict(item) == ScalarKey \notin DOMAIN item

ScalarItem(s) == [k \in {ScalarKey} |-> s]

ListValue(items) == [islist |-> TRUE, items |-> items, val |-> ""]

ScalarValue(s) == [islist |-> FALSE, items |-> <<>>, val |-> s]

EmptyDb == [k \in {} |-> ListValue(<<>>)]

Digits == <<"0", "1", "2", "3", "4", "5", "6", "7", "8", "9">>

\* str(n) of a non-negative integer.
RECURSIVE Str(_)
Str(n) == IF n < 10 THEN Digits[n + 1] ELSE Str(n \div 10) \o Digits[(n % 10) + 1]

IsDigit(ch) == \E d \in 1..10 : Digits[d] = ch

DigitValue(ch) == (CHOOSE d \in 1..10 : Digits[d] = ch) - 1

IsDigitString(s) == Len(s) > 0 /\ \A i \in 1..Len(s) : IsDigit(SubSeq(s, i, i))

RECURSIVE DigitsToInt(_)
DigitsToInt(s) ==
    IF Len(s) = 0 THEN 0
    ELSE 10 * DigitsToInt(SubSeq(s, 1, Len(s) - 1)) + DigitValue(SubSeq(s, Len(s), Len(s)))

Quote(s) == "\"" \o s \o "\""

IsQuoted(t) == Len(t) >= 2 /\ SubSeq(t, 1, 1) = "\"" /\ SubSeq(t, Len(t), Len(t)) = "\""

Unquote(t) == SubSeq(t, 2, Len(t) - 1)

RECURSIVE SetToSeq(_)
SetToSeq(S) ==
    IF S = {} THEN <<>>
    ELSE LET x == CHOOSE y \in S : TRUE IN <<x>> \o SetToSeq(S \ {x})

\* Elements joined by "," tokens.
RECURSIVE JoinComma(_)
JoinComma(parts) ==
    IF Len(parts) = 0 THEN <<>>
    ELSE IF Len(parts) = 1 THEN parts[1]
    ELSE parts[1] \o <<",">> \o JoinComma(Tail(parts))

DumpField(k, v) == IF k = "id" THEN <<Str(v)>> ELSE <<Quote(v)>>

DumpItem(item) ==
    IF IsDict(item)
    THEN LET ks == SetToSeq(DOMAIN item)
         IN <<"{">> \o JoinComma([i \in 1..Len(ks) |->
                        <<Quote(ks[i]), ":">> \o DumpField(ks[i], item[ks[i]])]) \o <<"}">>
    ELSE <<Quote(item[ScalarKey])>>

DumpValue(cv) ==
    IF cv.islist
    THEN <<"[">> \o JoinComma([i \in 1..Len(cv.items) |-> DumpItem(cv.items[i])]) \o <<"]">>
    ELSE <<Quote(cv.val)>>

\* json.dump(db, f, indent=2, ensure_ascii=False)
JsonDump(d) ==
    LET ks == SetToSeq(DOMAIN d)
    IN <<"{">> \o JoinComma([i \in 1..Len(ks) |->
                   <<Quote(ks[i]), ":">> \o DumpValue(d[ks[i]])]) \o <<"}">>

ParseFail == [ok |-> FALSE, v |-> <<>>, next |-> 0]

Tok(t, i) == IF i >= 1 /\ i <= Len(t) THEN t[i] ELSE "<eof>"

\* A scalar inside a record: an integer or a string.
ParseScalar(t, i) ==
    IF IsDigitString(Tok(t, i)) THEN [ok |-> TRUE, v |-> DigitsToInt(Tok(t, i)), next |-> i + 1]
    ELSE IF IsQuoted(Tok(t, i)) THEN [ok |-> TRUE, v |-> Unquote(Tok(t, i)), next |-> i + 1]
    ELSE ParseFail

\* d[k] = v on a Python dict (a key is added or overwritten).
\* Variant: the assignment leaves only the key assigned.
DictSetOnly(d, k, v) == [f \in {k} |-> v]

DictSet(d, k, v) == [f \in DOMAIN d \cup {k} |-> IF f = k THEN v ELSE d[f]]

\* The members of an object from token i on, acc the members read so far.
\* (Sub-results are bound as elements of one-element sets, so that each is
\* computed once.)
RECURSIVE ParseMembers(_, _, _)
ParseMembers(t, i, acc) ==
    IF ~IsQuoted(Tok(t, i)) \/ Tok(t, i + 1) # ":" THEN ParseFail
    ELSE CHOOSE res \in
           {IF ~r.ok THEN ParseFail
            ELSE IF Tok(t, r.next) = "}"
            THEN [ok |-> TRUE, v |-> DictSet(acc, Unquote(Tok(t, i)), r.v), next |-> r.next + 1]
            ELSE IF Tok(t, r.next) = ","
            THEN CHOOSE x \in {ParseMembers(t, j, a) :
                                 j \in {r.next + 1}, a \in {DictSet(acc, Unquote(Tok(t, i)), r.v)}} : TRUE
            ELSE ParseFail : r \in {ParseScalar(t, i + 2)}} : TRUE

ParseItem(t, i) ==
    IF Tok(t, i) = "{"
    THEN IF Tok(t, i + 1) = "}" THEN [ok |-> TRUE, v |-> EmptyDict, next |-> i + 2]
         ELSE ParseMembers(t, i + 1, EmptyDict)
    ELSE IF IsQuoted(Tok(t, i)) THEN [ok |-> TRUE, v |-> ScalarItem(Unquote(Tok(t, i))), next |-> i + 1]
    ELSE ParseFail

RECURSIVE ParseElements(_, _, _)
ParseElements(t, i, acc) ==
    CHOOSE res \in
      {IF ~r.ok THEN ParseFail
       ELSE IF Tok(t, r.next) = "]" THEN [ok |-> TRUE, v |-> Append(acc, r.v), next |-> r.next + 1]
       ELSE IF Tok(t, r.next) = ","
       THEN CHOOSE x \in {ParseElements(t, j, a) : j \in {r.next + 1}, a \in {Append(acc, r.v)}} : TRUE
       ELSE ParseFail : r \in {ParseItem(t, i)}} : TRUE

ParseValue(t, i) ==
    IF Tok(t, i) = "["
    THEN IF Tok(t, i + 1) = "]" THEN [ok |-> TRUE, v |-> ListValue(<<>>), next |-> i + 2]
         ELSE CHOOSE res \in
                {IF r.ok THEN [ok |-> TRUE, v |-> ListValue(r.v), next |-> r.next] ELSE ParseFail :
                    r \in {ParseElements(t, i + 1, <<>>)}} : TRUE
    ELSE IF IsQuoted(Tok(t, i)) THEN [ok |-> TRUE, v |-> ScalarValue(Unquote(Tok(t, i))), next |-> i + 1]
    ELSE ParseFail

RECURSIVE ParseTop(_, _, _)
ParseTop(t, i, acc) ==
    IF ~IsQuoted(Tok(t, i)) \/ Tok(t, i + 1) # ":" THEN ParseFail
    ELSE CHOOSE res \in
           {IF ~r.ok THEN ParseFail
            ELSE IF Tok(t, r.next) = "}"
            THEN [ok |-> TRUE, v |-> DictSet(acc, Unquote(Tok(t, i)), r.v), next |-> r.next + 1]
            ELSE IF Tok(t, r.next) = ","
            THEN CHOOSE x \in {ParseTop(t, j, a) :
                                 j \in {r.next + 1}, a \in {DictSet(acc, Unquote(Tok(t, i)), r.v)}} : TRUE
            ELSE ParseFail : r \in {ParseValue(t, i + 2)}} : TRUE

\* json.loads(content): the document, or a JSONDecodeError (ok = FALSE).
JsonLoads(t) ==
    IF Tok(t, 1) # "{" THEN ParseFail
    ELSE IF Tok(t, 2) = "}" THEN (IF Len(t) = 2 THEN [ok |-> TRUE, v |-> EmptyDb, next |-> 3] ELSE ParseFail)
    ELSE CHOOSE res \in {IF r.ok /\ r.next = Len(t) + 1 THEN r ELSE ParseFail :
                            r \in {ParseTop(t, 2, EmptyDb)}} : TRUE

(***************************************************************************)
(* Helpers of the request handlers.                                        *)
(***************************************************************************)
MaxNameLen == 50

AllowedChars == "abcdefghijklmnopqrstuvwxyzABCDEFGHIJKLMNOPQRSTUVWXYZ0123456789_-"

IsNameChar(ch) == \E i \in 1..Len(AllowedChars) : SubSeq(AllowedChars, i, i) = ch

\* re.match(r'^[a-zA-Z0-9_-]+$', s): in Python "$" also matches just before
\* a newline that ends the string.
ReMatchName(s) ==
    LET n == IF Len(s) >= 1 /\ SubSeq(s, Len(s), Len(s)) = "\n" THEN Len(s) - 1 ELSE Len(s)
    IN n >= 1 /\ \A i \in 1..n : IsNameChar(SubSeq(s, i, i))

validate_collection_name(collection) ==
    IF Len(collection) = 0 \/ Len(collection) > MaxNameLen THEN FALSE
    ELSE ReMatchName(collection)

\* The headers of a response made by jsonify. No handler adds a header and
\* create_app registers no hook that would.
JsonHeaders == [k \in {"Content-Type"} |-> "application/json"]

Response(status, error, item, items) ==
    [status |-> status, error |-> error, item |-> item, items |-> items,
     headers |-> JsonHeaders]

\* The headers cors_middleware puts on the response of a view it wraps.
CorsHeaders ==
    [k \in {"Access-Control-Allow-Origin", "Access-Control-Allow-Methods",
            "Access-Control-Allow-Headers", "Access-Control-Max-Age"} |->
        CASE k = "Access-Control-Allow-Origin" -> "*"
          [] k = "Access-Control-Allow-Methods" -> "GET, POST, PUT, DELETE, OPTIONS"
          [] k = "Access-Control-Allow-Headers" -> "Content-Type, Authorization, X-Requested-With"
          [] OTHER -> "86400"]

\* cors_middleware(f), applied to the response of f: response.headers.update.
\* src/mockapi never imports it, so no view of create_app is wrapped.
cors_middleware(response) ==
    [response EXCEPT !.headers =
        [k \in DOMAIN @ \cup DOMAIN CorsHeaders |->
            IF k \in DOMAIN CorsHeaders THEN CorsHeaders[k] ELSE @[k]]]

ErrorResponse(status, error) == Response(status, error, EmptyDict, <<>>)

ItemResponse(status, item) == Response(status, "", item, <<>>)

ListResponse(items) == Response(200, "", EmptyDict, items)

NoResponse == Response(0, "", EmptyDict, <<>>)

\* A request body: is_json is request.is_json (the Content-Type), parsed the
\* outcome of request.get_json(): "error" (it raises), "null" (None),
\* "other" (JSON that is no object) or "object", with data the object.
validate_json_request(body) ==
    IF ~body.is_json
    THEN [data |-> EmptyDict, error |-> ErrorResponse(400, "Content-Type must be application/json")]
    ELSE IF body.parsed = "error"
    THEN [data |-> EmptyDict, error |-> ErrorResponse(400, "JSON parsing error")]
    ELSE IF body.parsed = "null"
    THEN [data |-> EmptyDict, error |-> ErrorResponse(400, "Invalid or empty JSON")]
    ELSE IF body.parsed # "object"
    THEN [data |-> EmptyDict, error |-> ErrorResponse(400, "JSON must be an object")]
    ELSE [data |-> body.data, error |-> NoResponse]

\* item.get('id') == item_id, for a dict entry.
IdMatches(item, item_id) == IsDict(item) /\ "id" \in DOMAIN item /\ item["id"] = item_id

\* The first index the handlers' for-loops match, 0 when none matches.
FindIndex(items, item_id) ==
    LET hits == {i \in 1..Len(items) : IdMatches(items[i], item_id)}
    IN IF hits = {} THEN 0 ELSE CHOOSE i \in hits : \A j \in hits : i <= j

\* Variant: list.pop() without the index.
RemoveLast(items, i) == SubSeq(items, 1, Len(items) - 1)

\* list.pop(i)
RemoveAt(items, i) == SubSeq(items, 1, i - 1) \o SubSeq(items, i + 1, Len(items))

SetMax(S) == CHOOSE m \in S : \A x \in S : x <= m

\* max((i.get('id', 0) for i in items if isinstance(i, dict)), default=0)
MaxId(items) ==
    LET ids == {IF "id" \in DOMAIN items[i] THEN items[i]["id"] ELSE 0 :
                    i \in {j \in 1..Len(items) : IsDict(items[j])}}
    IN IF ids = {} THEN 0 ELSE SetMax(ids)

\* Variant: the counter starts at the number of entries.
InitCountersByLength(d) == [col \in DOMAIN d |-> IF d[col].islist THEN Len(d[col].items) ELSE 0]

\* Variant: the counter starts at the id of the last entry.
InitCountersLastId(d) ==
    [col \in DOMAIN d |->
        IF d[col].islist /\ Len(d[col].items) > 0
           /\ IsDict(d[col].items[Len(d[col].items)])
           /\ "id" \in DOMAIN d[col].items[Len(d[col].items)]
        THEN d[col].items[Len(d[col].items)]["id"] ELSE 0]

InitCounters(d) == [col \in DOMAIN d |-> IF d[col].islist THEN MaxId(d[col].items) ELSE 0]

\* load_db: the document read from the file, {} when the file is missing,
\* blank or does not parse.
load_db(f) ==
    IF ~f.exists THEN EmptyDb
    ELSE IF Len(f.content) = 0 THEN EmptyDb
    ELSE LET r == JsonLoads(f.content) IN IF r.ok THEN r.v ELSE EmptyDb

\* os.path.dirname
Dirname(path) ==
    LET idx == {i \in 1..Len(path) : SubSeq(path, i, i) = "/"}
    IN IF idx = {} THEN ""
       ELSE IF SetMax(idx) = 1 THEN "/"
       ELSE SubSeq(path, 1, SetMax(idx) - 1)

\* What one call of save_db can do: "ok"; "nodir", os.makedirs('') raising
\* for a datafile without a directory part; "noopen", makedirs or open
\* raising OSError; "cut", open having truncated the file and the write
\* failing before the text is complete.
SaveOutcomes ==
    IF Dirname(datafile) = "" THEN {"nodir"}
    ELSE {"ok"} \cup (IF iofail > 0 THEN {"noopen", "cut"} ELSE {})

\* Variant: the except branch swallows the error and True is returned.
save_db_swallow_error(d, outcome) ==
    LET text == JsonDump(d)
    IN IF outcome = "ok" THEN [ok |-> TRUE, file |-> [exists |-> TRUE, content |-> text]]
       ELSE IF outcome = "cut"
       THEN [ok |-> TRUE, file |-> [exists |-> TRUE, content |-> SubSeq(text, 1, Len(text) - 1)]]
       ELSE [ok |-> TRUE, file |-> file]

save_db(d, outcome) ==
    LET text == JsonDump(d)
    IN IF outcome = "ok" THEN [ok |-> TRUE, file |-> [exists |-> TRUE, content |-> text]]
       ELSE IF outcome = "cut"
       THEN [ok |-> FALSE, file |-> [exists |-> TRUE, content |-> SubSeq(text, 1, Len(text) - 1)]]
       ELSE [ok |-> FALSE, file |-> file]

(***************************************************************************)
(* The request handlers. Each yields its response and the document, the    *)
(* counters and the file it leaves; io tells whether save_db ran and       *)
(* failed.                                                                 *)
(***************************************************************************)
Outcome(r, d, c, f, io) == [resp |-> r, db |-> d, counters |-> c, file |-> f, io |-> io]

\* A return that touched nothing.
Return(r) == Outcome(r, db, counters, file, FALSE)

\* Variant: the change is rolled back when the save fails.
SaveFailedRollback(d, c, f) == Outcome(ErrorResponse(500, "Failed to save data"), db, counters, f, TRUE)

\* "if not save_db(): return ... 500": the change made in memory stays.
SaveFailed(d, c, f) == Outcome(ErrorResponse(500, "Failed to save data"), d, c, f, TRUE)

\* Variant: an id supplied in the body is kept.
NewItemKeepsBodyId(data, id) == IF "id" \in DOMAIN data THEN data ELSE DictSet(data, "id", id)

\* item = data.copy(); item['id'] = counters[collection]
NewItem(data, id) == DictSet(data, "id", id)

\* Variant: an id supplied in the body is kept.
UpdatedItemKeepsBodyId(data, item_id) ==
    IF "id" \in DOMAIN data THEN data ELSE DictSet(data, "id", item_id)

\* updated_item = data.copy(); updated_item['id'] = item_id
UpdatedItem(data, item_id) == DictSet(data, "id", item_id)

DefaultLimit == 10
MaxKeyLen == 50
MinPage == 1
MaxPage == 1000
MinLimit == 1
MaxLimit == 100

None == [none |-> TRUE, v |-> 0]

Some(n) == [none |-> FALSE, v |-> n]

\* int(value) of a query-string value: an optional sign, then digits.
ParseInt(s) ==
    IF IsDigitString(s) THEN Some(DigitsToInt(s))
    ELSE IF Len(s) >= 2 /\ SubSeq(s, 1, 1) = "-" /\ IsDigitString(SubSeq(s, 2, Len(s)))
    THEN Some(0 - DigitsToInt(SubSeq(s, 2, Len(s))))
    ELSE IF Len(s) >= 2 /\ SubSeq(s, 1, 1) = "+" /\ IsDigitString(SubSeq(s, 2, Len(s)))
    THEN Some(DigitsToInt(SubSeq(s, 2, Len(s))))
    ELSE None

\* safe_int_param(value, default, min_val, max_val); value is None (TypeError),
\* or an int or string already turned into Some(n) or None (ValueError).
safe_int_param(value, default, min_val, max_val) ==
    IF value.none THEN default
    ELSE IF value.v < min_val THEN default
    ELSE IF value.v > max_val THEN default
    ELSE value

\* Variant: an absent field reads as None, whose string is "None".
StrFieldAbsentNone(item, key) ==
    IF key \notin DOMAIN item THEN "None"
    ELSE IF key = "id" THEN Str(item[key])
    ELSE item[key]

\* str(i.get(key, ''))
StrField(item, key) ==
    IF key \notin DOMAIN item THEN ""
    ELSE IF key = "id" THEN Str(item[key])
    ELSE item[key]

\* Variant: an entry is kept when it matches any of the keys.
FilterItemsAny(items, args) ==
    LET keys == {k \in DOMAIN args : ~(Len(k) >= 1 /\ SubSeq(k, 1, 1) = "_") /\ ~(Len(k) > MaxKeyLen)}
        Keep(i) == IsDict(i) /\ \E k \in keys : StrField(i, k) = args[k]
    IN IF keys = {} THEN items ELSE SelectSeq(items, Keep)

\* The filter loop over request.args: one pass per key that is not reserved
\* and not too long; the passes commute, each only drops entries.
FilterItems(items, args) ==
    LET keys == {k \in DOMAIN args : ~(Len(k) >= 1 /\ SubSeq(k, 1, 1) = "_") /\ ~(Len(k) > MaxKeyLen)}
        Keep(i) == IsDict(i) /\ \A k \in keys : StrField(i, k) = args[k]
    IN IF keys = {} THEN items ELSE SelectSeq(items, Keep)

\* Variant: the slice starts one entry late.
SliceFromNext(items, start, stop) ==
    SubSeq(items, start + 2, IF stop < Len(items) THEN stop ELSE Len(items))

\* Variant: no slice is taken.
SliceAll(items, start, stop) == items

\* items[start:start + limit] with 0-based start >= 0
Slice(items, start, stop) ==
    SubSeq(items, start + 1, IF stop < Len(items) THEN stop ELSE Len(items))

\* Variant: the filter and the slice are applied to the stored list itself.
list_items_in_place(collection, args) ==
    IF ~validate_collection_name(collection)
    THEN Return(ErrorResponse(400, "Invalid collection name"))
    ELSE IF collection \notin DOMAIN db
    THEN Return(ErrorResponse(404, "Collection not found"))
    ELSE IF ~db[collection].islist
    THEN Return(ErrorResponse(400, "Collection is not a list"))
    ELSE LET filtered == FilterItems(db[collection].items, args)
             page == safe_int_param(IF "_page" \in DOMAIN args THEN ParseInt(args["_page"]) ELSE None,
                                    None, MinPage, MaxPage)
             limit == safe_int_param(IF "_limit" \in DOMAIN args THEN ParseInt(args["_limit"])
                                     ELSE Some(DefaultLimit),
                                     Some(DefaultLimit), MinLimit, MaxLimit)
             start == IF ~page.none /\ page.v # 0 THEN (page.v - 1) * limit.v ELSE 0
             sliced == Slice(filtered, start, start + limit.v)
         IN Outcome(ListResponse(sliced), [db EXCEPT ![collection].items = sliced],
                    counters, file, FALSE)

list_items(collection, args) ==
    IF ~validate_collection_name(collection)
    THEN Return(ErrorResponse(400, "Invalid collection name"))
    ELSE IF collection \notin DOMAIN db
    THEN Return(ErrorResponse(404, "Collection not found"))
    ELSE IF ~db[collection].islist
    THEN Return(ErrorResponse(400, "Collection is not a list"))
    ELSE LET filtered == FilterItems(db[collection].items, args)
             page == safe_int_param(IF "_page" \in DOMAIN args THEN ParseInt(args["_page"]) ELSE None,
                                    None, MinPage, MaxPage)
             limit == safe_int_param(IF "_limit" \in DOMAIN args THEN ParseInt(args["_limit"])
                                     ELSE Some(DefaultLimit),
                                     Some(DefaultLimit), MinLimit, MaxLimit)
         IN IF ~page.none /\ page.v # 0
            THEN Return(ListResponse(Slice(filtered, (page.v - 1) * limit.v,
                                           (page.v - 1) * limit.v + limit.v)))
            ELSE IF limit.v # 0
            THEN Return(ListResponse(Slice(filtered, 0, limit.v)))
            ELSE Return(ListResponse(filtered))

\* Variant: a missing collection is read as an empty list.
get_item_missing_as_empty(collection, item_id) ==
    IF ~validate_collection_name(collection)
    THEN Return(ErrorResponse(400, "Invalid collection name"))
    ELSE IF collection \in DOMAIN db /\ ~db[collection].islist
    THEN Return(ErrorResponse(400, "Collection is not a list"))
    ELSE LET items == IF collection \in DOMAIN db THEN db[collection].items ELSE <<>>
             i == FindIndex(items, item_id)
         IN IF i # 0 THEN Return(ItemResponse(200, items[i]))
            ELSE Return(ErrorResponse(404, "Item not found"))

get_item(collection, item_id) ==
    IF ~validate_collection_name(collection)
    THEN Return(ErrorResponse(400, "Invalid collection name"))
    ELSE IF collection \notin DOMAIN db
    THEN Return(ErrorResponse(404, "Collection not found"))
    ELSE IF ~db[collection].islist
    THEN Return(ErrorResponse(400, "Collection is not a list"))
    ELSE LET i == FindIndex(db[collection].items, item_id)
         IN IF i # 0 THEN Return(ItemResponse(200, db[collection].items[i]))
            ELSE Return(ErrorResponse(404, "Item not found"))

\* Variant: the collection is created before the body is checked.
create_item_ensure_first(collection, body, outcome) ==
    IF ~validate_collection_name(collection)
    THEN Return(ErrorResponse(400, "Invalid collection name"))
    ELSE LET vr == validate_json_request(body)
             db1 == IF collection \notin DOMAIN db
                    THEN DictSet(db, collection, ListValue(<<>>)) ELSE db
             c1 == IF collection \notin DOMAIN db
                   THEN DictSet(counters, collection, 0) ELSE counters
         IN IF vr.error # NoResponse THEN Outcome(vr.error, db1, c1, file, FALSE)
            ELSE IF ~db1[collection].islist
            THEN Outcome(ErrorResponse(400, "Collection is not a list"), db1, c1, file, FALSE)
            ELSE LET c2 == [c1 EXCEPT ![collection] = @ + 1]
                     item == NewItem(vr.data, c2[collection])
                     db2 == [db1 EXCEPT ![collection].items = Append(@, item)]
                     s == save_db(db2, outcome)
                 IN IF ~s.ok
                    THEN SaveFailed(db2, c2, s.file)
                    ELSE Outcome(ItemResponse(201, item), db2, c2, s.file, FALSE)

\* Variant: a Create on a value that is no list puts a list in its place.
create_item_replaces_scalar(collection, body, outcome) ==
    IF ~validate_collection_name(collection)
    THEN Return(ErrorResponse(400, "Invalid collection name"))
    ELSE LET vr == validate_json_request(body)
         IN IF vr.error # NoResponse THEN Return(vr.error)
            ELSE LET fresh == collection \notin DOMAIN db \/ ~db[collection].islist
                     db1 == IF fresh THEN DictSet(db, collection, ListValue(<<>>)) ELSE db
                     c1 == IF fresh THEN DictSet(counters, collection, 0) ELSE counters
                     c2 == [c1 EXCEPT ![collection] = @ + 1]
                     item == NewItem(vr.data, c2[collection])
                     db2 == [db1 EXCEPT ![collection].items = Append(@, item)]
                     s == save_db(db2, outcome)
                 IN IF ~s.ok
                    THEN SaveFailed(db2, c2, s.file)
                    ELSE Outcome(ItemResponse(201, item), db2, c2, s.file, FALSE)

create_item(collection, body, outcome) ==
    IF ~validate_collection_name(collection)
    THEN Return(ErrorResponse(400, "Invalid collection name"))
    ELSE LET vr == validate_json_request(body)
         IN IF vr.error # NoResponse THEN Return(vr.error)
            ELSE LET db1 == IF collection \notin DOMAIN db
                            THEN DictSet(db, collection, ListValue(<<>>)) ELSE db
                     c1 == IF collection \notin DOMAIN db
                           THEN DictSet(counters, collection, 0) ELSE counters
                 IN IF ~db1[collection].islist
                    THEN Outcome(ErrorResponse(400, "Collection is not a list"), db1, c1, file, FALSE)
                    ELSE LET c2 == [c1 EXCEPT ![collection] = @ + 1]
                             item == NewItem(vr.data, c2[collection])
                             db2 == [db1 EXCEPT ![collection].items = Append(@, item)]
                             s == save_db(db2, outcome)
                         IN IF ~s.ok
                            THEN SaveFailed(db2, c2, s.file)
                            ELSE Outcome(ItemResponse(201, item), db2, c2, s.file, FALSE)

\* Variant: the body is merged into the stored record.
update_item_merge(collection, item_id, body, outcome) ==
    IF ~validate_collection_name(collection)
    THEN Return(ErrorResponse(400, "Invalid collection name"))
    ELSE IF collection \notin DOMAIN db
    THEN Return(ErrorResponse(404, "Collection not found"))
    ELSE IF ~db[collection].islist
    THEN Return(ErrorResponse(400, "Collection is not a list"))
    ELSE LET vr == validate_json_request(body)
         IN IF vr.error # NoResponse THEN Return(vr.error)
            ELSE LET i == FindIndex(db[collection].items, item_id)
                 IN IF i = 0 THEN Return(ErrorResponse(404, "Item not found"))
                    ELSE LET old == db[collection].items[i]
                             updated_item ==
                                 [k \in DOMAIN old \cup DOMAIN vr.data |->
                                     IF k = "id" THEN item_id
                                     ELSE IF k \in DOMAIN vr.data THEN vr.data[k] ELSE old[k]]
                             db2 == [db EXCEPT ![collection].items[i] = updated_item]
                             s == save_db(db2, outcome)
                         IN IF ~s.ok
                            THEN SaveFailed(db2, counters, s.file)
                            ELSE Outcome(ItemResponse(200, updated_item), db2, counters, s.file, FALSE)

update_item(collection, item_id, body, outcome) ==
    IF ~validate_collection_name(collection)
    THEN Return(ErrorResponse(400, "Invalid collection name"))
    ELSE IF collection \notin DOMAIN db
    THEN Return(ErrorResponse(404, "Collection not found"))
    ELSE IF ~db[collection].islist
    THEN Return(ErrorResponse(400, "Collection is not a list"))
    ELSE LET vr == validate_json_request(body)
         IN IF vr.error # NoResponse THEN Return(vr.error)
            ELSE LET i == FindIndex(db[collection].items, item_id)
                 IN IF i = 0 THEN Return(ErrorResponse(404, "Item not found"))
                    ELSE LET updated_item == UpdatedItem(vr.data, item_id)
                             db2 == [db EXCEPT ![collection].items[i] = updated_item]
                             s == save_db(db2, outcome)
                         IN IF ~s.ok
                            THEN SaveFailed(db2, counters, s.file)
                            ELSE Outcome(ItemResponse(200, updated_item), db2, counters, s.file, FALSE)

delete_item(collection, item_id, outcome) ==
    IF ~validate_collection_name(collection)
    THEN Return(ErrorResponse(400, "Invalid collection name"))
    ELSE IF collection \notin DOMAIN db
    THEN Return(ErrorResponse(404, "Collection not found"))
    ELSE IF ~db[collection].islist
    THEN Return(ErrorResponse(400, "Collection is not a list"))
    ELSE LET i == FindIndex(db[collection].items, item_id)
         IN IF i = 0 THEN Return(ErrorResponse(404, "Item not found"))
            ELSE LET deleted_item == db[collection].items[i]
                     db2 == [db EXCEPT ![collection].items = RemoveAt(@, i)]
                     s == save_db(db2, outcome)
                 IN IF ~s.ok
                    THEN SaveFailed(db2, counters, s.file)
                    ELSE Outcome(ItemResponse(200, deleted_item), db2, counters, s.file, FALSE)

(***************************************************************************)
(* The requests the model sends and the files it starts from.              *)
(***************************************************************************)
MaxInitLen == 2    \* length of a list in a start file

ReqNames == {"users", "posts", "a.b"}

\* Names that are empty, too long, or hold a character outside the set.
LongName == "aaaaaaaaaaaaaaaaaaaaaaaaaaaaaaaaaaaaaaaaaaaaaaaaaaa"

OddNames == {"", LongName, "a b", "users\n", "tags\n"}

\* The records addressed: any id users can hold, and one id elsewhere.
Targets ==
    {<<"users", i>> : i \in 1..MaxCounter} \cup {<<"posts", 1>>, <<"a.b", 1>>}

JsonBody(d) == [is_json |-> TRUE, parsed |-> "object", data |-> d]

Bodies ==
    {JsonBody([name |-> "b"]), JsonBody([id |-> 1]),
     [is_json |-> TRUE, parsed |-> "error", data |-> EmptyDict],
     [is_json |-> TRUE, parsed |-> "other", data |-> EmptyDict]}

NoBody == [is_json |-> FALSE, parsed |-> "null", data |-> EmptyDict]

NoArgs == [k \in {} |-> ""]

ArgSets == {NoArgs}

Request(op, collection, item_id, body, args) ==
    [op |-> op, collection |-> collection, item_id |-> item_id, body |-> body, args |-> args]

NoRequest == Request("none", "", 0, NoBody, NoArgs)

Mutations == {"create", "update", "delete"}

Threads == 1..NumThreads

\* A request of the threaded server: the handler it runs, the line it is at,
\* and the handler's local variables.
IdleThread ==
    [pc |-> "idle", op |-> "none", collection |-> "", item_id |-> 0, data |-> EmptyDict,
     i |-> 0, item |-> EmptyDict, hit |-> EmptyDict, buf |-> <<>>, resp |-> NoResponse]

\* A thread that is in no method of the cache.
IdleCall == [pc |-> "idle", op |-> "none", key |-> "", value |-> "", ttl |-> 0]

\* No ThreadSafeCacheManager has been constructed.
NoCache ==
    [made |-> FALSE, max_size |-> 0, default_ttl |-> 0, entries |-> <<>>, lock |-> 0,
     now |-> 0, calls |-> [t \in Threads |-> IdleCall], uses |-> <<>>, evicted |-> FALSE]

\* validate_db has not run.
NoReport == [ran |-> FALSE, data |-> [isdict |-> TRUE, items |-> <<>>], raised |-> FALSE, issues |-> <<>>]

\* The watcher before its first reload: last_mtime is the file's mtime and
\* app.config has no "DB_DATA". The file was written some time ago.
NoReload ==
    [stale |-> FALSE, loaded |-> FALSE, data |-> EmptyDb, failed |-> FALSE, fresh |-> FALSE,
     edits |-> 0]

\* A write to the file sets its mtime to the time the clock shows. A write
\* made while the clock still shows the file's mtime leaves the mtime as it
\* is (timestamps are as fine as the file system keeps them); any other
\* makes it differ from the one the watcher remembers.
Touch(w) == IF w.fresh THEN w ELSE [w EXCEPT !.stale = TRUE, !.fresh = TRUE]

InitItems == {[id |-> 1, name |-> "a"], [id |-> 2, name |-> "a"], [name |-> "a"], ScalarItem("x")}

SeqsUpTo(S, n) == UNION {[1..k -> S] : k \in 0..n}

InitDocs ==
    {[c \in cs |-> IF c = "users" THEN ListValue(u) ELSE ScalarValue("v1")] :
        cs \in {{"users"}, {"users", "posts"}}, u \in SeqsUpTo(InitItems, MaxInitLen)}

Mixed ==
    [c \in {"users", "posts"} |->
        IF c = "users" THEN ListValue(<<ScalarItem("x"), [name |-> "a"]>>) ELSE ScalarValue("v1")]

\* A document with a scalar under a key that is no collection name.
Versioned ==
    [c \in {"users", "a.b"} |->
        IF c = "users" THEN ListValue(<<[id |-> 1, name |-> "a"]>>) ELSE ScalarValue("v1")]

Fixture == [c \in {"users"} |-> ListValue(<<[id |-> 1, name |-> "a"], [id |-> 2, name |-> "a"]>>)]

\* A start file: missing, blank, cut short, or a document.
InitFiles ==
    {[exists |-> FALSE, content |-> <<>>], [exists |-> TRUE, content |-> <<>>],
     [exists |-> TRUE, content |-> <<"{", Quote("users"), ":", "[">>]}
    \cup {[exists |-> TRUE, content |-> JsonDump(d)] : d \in InitDocs}

\* create_app(datafile): db and counters as load_db() leaves them. iofail is
\* the number of transient I/O failures the environment still has in store.
Start(path, f, n) ==
    /\ datafile = path
    /\ file = f
    /\ iofail = n
    /\ db = load_db(file)
    /\ counters = InitCounters(db)
    /\ req = NoRequest
    /\ resp = NoResponse
    /\ db0 = db
    /\ issued = [c \in ReqNames \cup OddNames |-> <<>>]
    /\ gone = {}
    /\ threads = [t \in Threads |-> IdleThread]
    /\ watch = NoReload
    /\ report = NoReport
    /\ cache = NoCache

\* A healthy disk, or a datafile given without a directory part.
Init ==
    \/ \E f \in InitFiles : Start("/srv/db.json", f, 0)
    \/ Start("/srv/db.json", [exists |-> TRUE, content |-> JsonDump(Versioned)], 0)
    \/ \E f \in {[exists |-> FALSE, content |-> <<>>], [exists |-> TRUE, content |-> JsonDump(Fixture)]} :
           Start("db.json", f, 0)

\* A disk that fails now and then.
InitIO ==
    \E f \in {[exists |-> FALSE, content |-> <<>>], [exists |-> TRUE, content |-> JsonDump(Fixture)],
              [exists |-> TRUE, content |-> JsonDump(Mixed)]} :
        Start("/srv/db.json", f, MaxIOErrors)

\* A request is taken when the previous one has been answered. The handler's
\* outcome becomes the state; o is what save_db did, if it ran.
Handle(request, r, o) ==
    /\ req = NoRequest
    /\ req' = request
    /\ resp' = r.resp
    /\ db' = r.db
    /\ counters' = r.counters
    /\ file' = r.file
    /\ iofail' = IF r.io /\ o # "nodir" THEN iofail - 1 ELSE iofail
    /\ watch' = IF /\ request.op \in Mutations
                    /\ (r.resp.status \in {200, 201} \/ (r.resp.status = 500 /\ o = "cut"))
                 THEN Touch(watch) ELSE watch
    /\ UNCHANGED <<datafile, db0, threads, report, cache>>

\* How many dict entries of the collection carry this id.
CountId(d, collection, item_id) ==
    IF collection \in DOMAIN d /\ d[collection].islist
    THEN Cardinality({i \in 1..Len(d[collection].items) : IdMatches(d[collection].items[i], item_id)})
    ELSE 0

RECURSIVE SumLen(_, _)
SumLen(f, S) ==
    IF S = {} THEN 0
    ELSE LET x == CHOOSE y \in S : TRUE IN Len(f[x]) + SumLen(f, S \ {x})

\* Ids allocated so far, over all collections.
NumIssued == SumLen(issued, DOMAIN issued)

\* The id of the last entry of a collection, 0 when it has none.
LastId(d, collection) ==
    IF collection \in DOMAIN d /\ d[collection].islist /\ Len(d[collection].items) > 0
       /\ IsDict(d[collection].items[Len(d[collection].items)])
       /\ "id" \in DOMAIN d[collection].items[Len(d[collection].items)]
    THEN d[collection].items[Len(d[collection].items)]["id"]
    ELSE 0

\* GET /<collection>
List(c, a) ==
    /\ Handle(Request("list", c, 0, NoBody, a), list_items(c, a), "ok")
    /\ UNCHANGED <<issued, gone>>

\* GET /<collection>/<int:item_id>
Get(c, item_id) ==
    /\ Handle(Request("get", c, item_id, NoBody, NoArgs), get_item(c, item_id), "ok")
    /\ UNCHANGED <<issued, gone>>

\* POST /<collection>
Create(c, b, o) ==
    LET r == create_item(c, b, o)
        allocated == r.resp.status \in {201, 500}
    IN /\ NumIssued < MaxCreates
       /\ c \in DOMAIN counters => counters[c] < MaxCounter
       /\ Handle(Request("create", c, 0, b, NoArgs), r, o)
       /\ issued' = IF allocated
                    THEN [issued EXCEPT ![c] = Append(@, LastId(r.db, c))]
                    ELSE issued
       /\ gone' = IF allocated THEN {g \in gone : g[1] # c} ELSE gone

\* PUT /<collection>/<int:item_id>
Update(c, item_id, b, o) ==
    /\ Handle(Request("update", c, item_id, b, NoArgs), update_item(c, item_id, b, o), o)
    /\ UNCHANGED <<issued, gone>>

\* DELETE /<collection>/<int:item_id>
Delete(c, item_id, o) ==
    LET r == delete_item(c, item_id, o)
    IN /\ Handle(Request("delete", c, item_id, NoBody, NoArgs), r, o)
       /\ gone' = IF r.resp.status = 200
                  THEN gone \cup {<<c, item_id, CountId(db, c, item_id)>>} ELSE gone
       /\ UNCHANGED issued

ListItems == \E c \in ReqNames, a \in ArgSets : List(c, a)

GetItem == \E t \in Targets : Get(t[1], t[2])

CreateItem == \E c \in ReqNames, b \in Bodies, o \in SaveOutcomes : Create(c, b, o)

UpdateItem == \E t \in Targets, b \in Bodies, o \in SaveOutcomes : Update(t[1], t[2], b, o)

DeleteItem == \E t \in Targets, o \in SaveOutcomes : Delete(t[1], t[2], o)

\* The response has been sent: the request is over.
Reply ==
    /\ req # NoRequest
    /\ req' = NoRequest
    /\ resp' = NoResponse
    /\ UNCHANGED <<datafile, file, db, counters, iofail, db0, issued, watch, threads, gone, report, cache>>

Next == ListItems \/ GetItem \/ CreateItem \/ UpdateItem \/ DeleteItem \/ Reply

Spec == Init /\ [][Next]_vars

SpecIO == InitIO /\ [][Next]_vars

(***************************************************************************)
(* Requests served at once. app.run serves each request in a thread of its *)
(* own and the handlers take no lock; a step is one statement of a handler *)
(* that reads or writes db, counters or the file. The name and the body    *)
(* have been checked when a thread enters.                                 *)
(***************************************************************************)
Single == [c \in {"users"} |-> ListValue(<<[id |-> 1, name |-> "a"]>>)]

Triple ==
    [c \in {"users"} |->
        ListValue(<<[id |-> 1, name |-> "a"], [id |-> 2, name |-> "a"], [id |-> 3, name |-> "a"]>>)]

InitThreads ==
    \E f \in {[exists |-> FALSE, content |-> <<>>], [exists |-> TRUE, content |-> JsonDump(Fixture)],
              [exists |-> TRUE, content |-> JsonDump(Single)], [exists |-> TRUE, content |-> JsonDump(Triple)]} :
        Start("/srv/db.json", f, 0)

\* The thread moves to a line, with some locals changed.
Goto(t, pc, changes) ==
    threads' = [threads EXCEPT ![t] = [k \in DOMAIN @ |->
                   IF k = "pc" THEN pc ELSE IF k \in DOMAIN changes THEN changes[k] ELSE @[k]]]

\* The handler returns.
Finish(t, r) == Goto(t, "done", [resp |-> r])

Shared == <<datafile, req, resp, iofail, db0, issued, gone, report, cache>>

\* The file has been written: its mtime is a new one.
Touched == watch' = Touch(watch)

\* A request arrives and passes the checks on its name and body.
Begin ==
    \E t \in Threads, op \in Mutations, id \in 1..2, d \in {[name |-> "b"], [name |-> "c"]} :
        /\ threads[t].pc = "idle"
        /\ op = "create" => id = 1
        /\ op = "delete" => d = [name |-> "b"]
        /\ Goto(t, op, [op |-> op, collection |-> "users", item_id |-> IF op = "create" THEN 0 ELSE id,
                        data |-> IF op = "delete" THEN EmptyDict ELSE d])
        /\ UNCHANGED <<Shared, watch, db, counters, file>>

\* create_item: if collection not in db
CreateCheck ==
    \E t \in Threads :
        /\ threads[t].pc = "create"
        /\ Goto(t, IF threads[t].collection \in DOMAIN db THEN "incr" ELSE "newlist", EmptyDict)
        /\ UNCHANGED <<Shared, watch, db, counters, file>>

\* create_item: db[collection] = []
CreateNewList ==
    \E t \in Threads :
        /\ threads[t].pc = "newlist"
        /\ db' = DictSet(db, threads[t].collection, ListValue(<<>>))
        /\ Goto(t, "newcounter", EmptyDict)
        /\ UNCHANGED <<Shared, watch, counters, file>>

\* create_item: counters[collection] = 0
CreateNewCounter ==
    \E t \in Threads :
        /\ threads[t].pc = "newcounter"
        /\ counters' = DictSet(counters, threads[t].collection, 0)
        /\ Goto(t, "incr", EmptyDict)
        /\ UNCHANGED <<Shared, watch, db, file>>

\* create_item: counters[collection] += 1; a KeyError when another thread
\* has made the list and not yet the counter.
CreateIncr ==
    \E t \in Threads :
        /\ threads[t].pc = "incr"
        /\ threads[t].collection \in DOMAIN counters
        /\ counters' = [counters EXCEPT ![threads[t].collection] = @ + 1]
        /\ Goto(t, "item", EmptyDict)
        /\ UNCHANGED <<Shared, watch, db, file>>

CreateKeyError ==
    \E t \in Threads :
        /\ threads[t].pc = "incr"
        /\ threads[t].collection \notin DOMAIN counters
        /\ Finish(t, ErrorResponse(500, "Internal Server Error"))
        /\ UNCHANGED <<Shared, watch, db, counters, file>>

\* create_item: item = data.copy(); item['id'] = counters[collection]
CreateItemId ==
    \E t \in Threads :
        /\ threads[t].pc = "item"
        /\ Goto(t, "append", [item |-> NewItem(threads[t].data, counters[threads[t].collection])])
        /\ UNCHANGED <<Shared, watch, db, counters, file>>

\* create_item: db[collection].append(item)
CreateAppend ==
    \E t \in Threads :
        /\ threads[t].pc = "append"
        /\ db' = [db EXCEPT ![threads[t].collection].items = Append(@, threads[t].item)]
        /\ Goto(t, "open", EmptyDict)
        /\ UNCHANGED <<Shared, watch, counters, file>>

\* update_item, delete_item: if collection not in db
FindCheck ==
    \E t \in Threads :
        /\ threads[t].pc \in {"update", "delete"}
        /\ IF threads[t].collection \in DOMAIN db
           THEN Goto(t, "find", EmptyDict)
           ELSE Finish(t, ErrorResponse(404, "Collection not found"))
        /\ UNCHANGED <<Shared, watch, db, counters, file>>

\* update_item, delete_item: the loop, up to the entry with the id.
Find ==
    \E t \in Threads :
        LET i == FindIndex(db[threads[t].collection].items, threads[t].item_id)
        IN /\ threads[t].pc = "find"
           /\ IF i = 0 THEN Finish(t, ErrorResponse(404, "Item not found"))
              ELSE Goto(t, IF threads[t].op = "update" THEN "replace" ELSE "pop", [i |-> i])
           /\ UNCHANGED <<Shared, watch, db, counters, file>>

\* update_item: updated_item = data.copy(); updated_item['id'] = item_id;
\* db[collection][i] = updated_item, an IndexError when the list got shorter.
UpdateReplace ==
    \E t \in Threads :
        LET c == threads[t].collection
            i == threads[t].i
            updated_item == UpdatedItem(threads[t].data, threads[t].item_id)
        IN /\ threads[t].pc = "replace"
           /\ IF i <= Len(db[c].items)
              THEN /\ db' = [db EXCEPT ![c].items[i] = updated_item]
                   /\ Goto(t, "open", [item |-> updated_item, hit |-> db[c].items[i]])
              ELSE /\ db' = db
                   /\ Finish(t, ErrorResponse(500, "Internal Server Error"))
           /\ UNCHANGED <<Shared, watch, counters, file>>

\* delete_item: deleted_item = db[collection].pop(i), an IndexError when the
\* list got shorter.
DeletePop ==
    \E t \in Threads :
        LET c == threads[t].collection
            i == threads[t].i
        IN /\ threads[t].pc = "pop"
           /\ IF i <= Len(db[c].items)
              THEN /\ db' = [db EXCEPT ![c].items = RemoveAt(@, i)]
                   /\ Goto(t, "open", [item |-> db[c].items[i], hit |-> db[c].items[i]])
              ELSE /\ db' = db
                   /\ Finish(t, ErrorResponse(500, "Internal Server Error"))
           /\ UNCHANGED <<Shared, watch, counters, file>>

\* What is in the file once text has been written from its start over old.
Overwrite(text, old) == text \o SubSeq(old, Len(text) + 1, Len(old))

\* save_db: open(datafile, 'w') empties the file.
SaveOpen ==
    \E t \in Threads :
        /\ threads[t].pc = "open"
        /\ file' = [exists |-> TRUE, content |-> <<>>]
        /\ Goto(t, "dump", EmptyDict)
        /\ Touched
        /\ UNCHANGED <<Shared, db, counters>>

\* save_db: json.dump(db, f) fills the buffer of f.
SaveDump ==
    \E t \in Threads :
        /\ threads[t].pc = "dump"
        /\ Goto(t, "close", [buf |-> JsonDump(db)])
        /\ UNCHANGED <<Shared, watch, db, counters, file>>

\* save_db: leaving the with block flushes the buffer to the file from its
\* start; the handler then returns the item.
SaveClose ==
    \E t \in Threads :
        /\ threads[t].pc = "close"
        /\ file' = [exists |-> TRUE, content |-> Overwrite(threads[t].buf, file.content)]
        /\ Finish(t, ItemResponse(IF threads[t].op = "create" THEN 201 ELSE 200, threads[t].item))
        /\ Touched
        /\ UNCHANGED <<Shared, db, counters>>

NextThreads ==
    \/ Begin \/ CreateCheck \/ CreateNewList \/ CreateNewCounter \/ CreateIncr \/ CreateKeyError
    \/ CreateItemId \/ CreateAppend \/ FindCheck \/ Find \/ UpdateReplace \/ DeletePop
    \/ SaveOpen \/ SaveDump \/ SaveClose

SpecThreads == InitThreads /\ [][NextThreads]_vars

(***************************************************************************)
(* The file watcher of mockapi serve, next to requests that read.          *)
(***************************************************************************)
InitWatch ==
    \E f \in {[exists |-> TRUE, content |-> JsonDump(Fixture)], [exists |-> TRUE, content |-> JsonDump(Single)]} :
        Start("/srv/db.json", f, 0)

\* What an editor may leave in the file: a document, or half of one.
EditedFiles ==
    {JsonDump(Fixture), JsonDump(Single), JsonDump(Triple), JsonDump(Mixed),
     <<"{", Quote("users"), ":", "[">>}

\* Somebody edits the file.
ExternalWrite ==
    \E text \in EditedFiles :
        /\ req = NoRequest
        /\ watch.edits < MaxEdits
        /\ file' = [exists |-> TRUE, content |-> text]
        /\ watch' = [Touch(watch) EXCEPT !.edits = @ + 1]
        /\ UNCHANGED <<datafile, db, counters, req, resp, iofail, db0, issued, threads, gone, report, cache>>

\* Variant: the mtime is remembered only once the file has been parsed.
WatcherLookRetrying(w, f) ==
    IF JsonLoads(f.content).ok
    THEN [w EXCEPT !.stale = FALSE, !.loaded = TRUE, !.data = JsonLoads(f.content).v,
                   !.failed = FALSE]
    ELSE [w EXCEPT !.failed = TRUE]

\* The body of the loop of _watch when the mtime differs: the mtime is
\* remembered, then the file is parsed and the result is put in
\* app.config["DB_DATA"]; a file that does not parse is passed over.
WatcherLook(w, f) ==
    IF JsonLoads(f.content).ok
    THEN [w EXCEPT !.stale = FALSE, !.loaded = TRUE, !.data = JsonLoads(f.content).v,
                   !.failed = FALSE]
    ELSE [w EXCEPT !.stale = FALSE, !.failed = TRUE]

\* _watch: one turn of the loop that finds the mtime changed.
WatcherTick ==
    /\ req = NoRequest
    /\ watch.stale
    /\ watch' = WatcherLook(watch, file)
    /\ UNCHANGED <<datafile, file, db, counters, req, resp, iofail, db0, issued, threads, gone, report, cache>>

\* The clock moves on from the file's mtime.
ClockAdvance ==
    /\ req = NoRequest
    /\ watch.fresh
    /\ watch' = [watch EXCEPT !.fresh = FALSE]
    /\ UNCHANGED <<datafile, file, db, counters, req, resp, iofail, db0, issued, threads, gone, report, cache>>

NextWatch == ExternalWrite \/ WatcherTick \/ ClockAdvance \/ ListItems \/ GetItem \/ Reply

SpecWatch == InitWatch /\ [][NextWatch]_vars

\* The watcher and the editor alone. The loop of _watch runs for ever and
\* time passes.
NextWatchLive == ExternalWrite \/ WatcherTick \/ ClockAdvance

SpecWatchLive ==
    InitWatch /\ [][NextWatchLive]_vars /\ WF_vars(WatcherTick) /\ WF_vars(ClockAdvance)

(***************************************************************************)
(* List with filters and pages, on lists shorter and longer than a page.   *)
(***************************************************************************)
ListDoc(n) ==
    [c \in {"users"} |->
        ListValue([k \in 1..n |-> [id |-> k, name |-> IF k = 2 THEN "b" ELSE "a"]])]

InitList ==
    \/ \E n \in {0, 3, 4, 5, MaxListLen - 1, MaxListLen} :
           Start("/srv/db.json", [exists |-> TRUE, content |-> JsonDump(ListDoc(n))], 0)
    \/ Start("/srv/db.json", [exists |-> TRUE, content |-> JsonDump(Mixed)], 0)

\* A query key of 51 characters.
LongKey == "kkkkkkkkkkkkkkkkkkkkkkkkkkkkkkkkkkkkkkkkkkkkkkkkkkk"

FilterArgs ==
    {NoArgs, [name |-> "a"], [name |-> "b"], [name |-> "zz"], [name |-> ""], [id |-> "1"],
     [name |-> "a", id |-> "1"], [name |-> "a", id |-> "2"], [_sort |-> "b"],
     LongKey :> "b", [name |-> "a", _sort |-> "b"], [zz |-> ""], [id |-> ""]}

PageArgs == {NoArgs} \cup {[_page |-> v] : v \in {"1", "2", "0", "1001", "abc"}}

LimitArgs == {NoArgs} \cup {[_limit |-> v] : v \in {"1", "2", "100", "0", "101", "abc"}}

ListQuery ==
    \E c \in {"users", "posts"}, f \in FilterArgs, pg \in PageArgs, lm \in LimitArgs :
        List(c, f @@ pg @@ lm)

\* A Get next to the queries.
GetListed == \E c \in {"users", "posts"}, item_id \in {1, MaxListLen + 1} : Get(c, item_id)

NextList == ListQuery \/ GetListed \/ Reply

SpecList == InitList /\ [][NextList]_vars

(***************************************************************************)
(* Requests on the names the name check is there for.                      *)
(***************************************************************************)
Dotted ==
    [c \in {"users", "a.b"} |->
        IF c = "users" THEN ListValue(<<[id |-> 1, name |-> "a"]>>)
        ELSE ListValue(<<[id |-> 1, name |-> "a"]>>)]

InitNames ==
    \E f \in {[exists |-> FALSE, content |-> <<>>], [exists |-> TRUE, content |-> JsonDump(Fixture)],
              [exists |-> TRUE, content |-> JsonDump(Dotted)]} :
        Start("/srv/db.json", f, 0)

ListNamed == \E c \in OddNames \cup {"a.b", "users"}, a \in ArgSets : List(c, a)

GetNamed == \E c \in OddNames \cup {"a.b", "users"}, i \in {1} : Get(c, i)

CreateNamed == \E c \in OddNames \cup {"a.b", "users"}, b \in Bodies, o \in SaveOutcomes : Create(c, b, o)

UpdateNamed == \E c \in OddNames \cup {"a.b", "users"}, b \in Bodies, o \in SaveOutcomes : Update(c, 1, b, o)

DeleteNamed == \E c \in OddNames \cup {"a.b", "users"}, o \in SaveOutcomes : Delete(c, 1, o)

NextNames == ListNamed \/ GetNamed \/ CreateNamed \/ UpdateNamed \/ DeleteNamed \/ Reply

SpecNames == InitNames /\ [][NextNames]_vars

(***************************************************************************)
(* The validator of src/mockapi/validate.py, run once on a document.       *)
(*   value        [t, n, s]: the name of its Python type, and its number   *)
(*                or its text                                              *)
(*   record       a function from its field names to values                *)
(*   list entry, not a dict    the function ScalarKey :> <value>           *)
(*   document     [isdict, items]: items the pairs [name, records] of      *)
(*                data.items(), in the order of the file                   *)
(***************************************************************************)
IntV(n) == [t |-> "int", n |-> n, s |-> ""]

StrV(x) == [t |-> "str", n |-> 0, s |-> x]

NoneV == [t |-> "NoneType", n |-> 0, s |-> ""]

TrueV == [t |-> "bool", n |-> 1, s |-> ""]

\* The list [1]: a value that cannot be put in a set.
ListV == [t |-> "list", n |-> 1, s |-> ""]

\* str(v)
StrOf(v) ==
    CASE v.t = "int" -> Str(v.n)
      [] v.t = "str" -> v.s
      [] v.t = "bool" -> IF v.n = 1 THEN "True" ELSE "False"
      [] v.t = "list" -> "[" \o Str(v.n) \o "]"
      [] OTHER -> "None"

\* a == b for two values: True equals 1.
PyEq(a, b) ==
    IF a.t \in {"int", "bool"} /\ b.t \in {"int", "bool"} THEN a.n = b.n ELSE a = b

\* hash(v) raises TypeError for a list.
Hashable(v) == v.t # "list"

\* The characters of the model's strings, in code point order.
CodePoints == "-0123456789ABCDEFGHIJKLMNOPQRSTUVWXYZ[]_abcdefghijklmnopqrstuvwxyz"

Ord(ch) == CHOOSE i \in 1..Len(CodePoints) : SubSeq(CodePoints, i, i) = ch

\* a < b for two strings.
RECURSIVE StrLess(_, _)
StrLess(a, b) ==
    IF Len(b) = 0 THEN FALSE
    ELSE IF Len(a) = 0 THEN TRUE
    ELSE IF SubSeq(a, 1, 1) # SubSeq(b, 1, 1) THEN Ord(SubSeq(a, 1, 1)) < Ord(SubSeq(b, 1, 1))
    ELSE StrLess(SubSeq(a, 2, Len(a)), SubSeq(b, 2, Len(b)))

RECURSIVE InsertByKey(_, _)
InsertByKey(x, xs) ==
    IF xs = <<>> THEN <<x>>
    ELSE IF StrLess(x.key, Head(xs).key) THEN <<x>> \o xs
    ELSE <<Head(xs)>> \o InsertByKey(x, Tail(xs))

\* sorted(xs, key=...) of pairs [key, val]: by key, equal keys in the order given.
RECURSIVE SortedByKey(_)
SortedByKey(xs) ==
    IF xs = <<>> THEN <<>>
    ELSE InsertByKey(xs[Len(xs)], SortedByKey(SubSeq(xs, 1, Len(xs) - 1)))

\* sorted(vals, key=str)
SortedByStr(vals) ==
    LET keyed == [i \in 1..Len(vals) |-> [key |-> StrOf(vals[i]), val |-> vals[i]]]
        out == SortedByKey(keyed)
    IN [i \in 1..Len(out) |-> out[i].val]

\* sorted(names) of a set of strings.
SortedNames(names) ==
    LET given == SetToSeq(names)
        out == SortedByKey([i \in 1..Len(given) |-> [key |-> given[i], val |-> NoneV]])
    IN [i \in 1..Len(out) |-> out[i].key]

\* One entry of the report. The texts are kept as their parts: the kind of
\* issue, the collection, the field, the counts and the lists they show.
Issue(kind, name, field, count, total, ids, types) ==
    [kind |-> kind, name |-> name, field |-> field, count |-> count, total |-> total,
     ids |-> ids, types |-> types]

\* The loop over ids: seen and dupes hold one value of each class of equal
\* values, the first that was added.
RECURSIVE FindDupes(_, _, _, _)
FindDupes(ids, i, seen, dupes) ==
    IF i > Len(ids) THEN [raised |-> FALSE, dupes |-> dupes]
    ELSE IF ~Hashable(ids[i]) THEN [raised |-> TRUE, dupes |-> dupes]
    ELSE LET rid == ids[i]
             in_seen == \E j \in 1..Len(seen) : PyEq(seen[j], rid)
             in_dupes == \E j \in 1..Len(dupes) : PyEq(dupes[j], rid)
         IN FindDupes(ids, i + 1,
                      IF in_seen THEN seen ELSE Append(seen, rid),
                      IF in_seen /\ ~in_dupes THEN Append(dupes, rid) ELSE dupes)

\* field_types[field] - {'NoneType'}
RealTypes(records, field) ==
    {records[i][field].t : i \in {j \in 1..Len(records) : field \in DOMAIN records[j]}}
        \ {"NoneType"}

\* The loop over field_types.
RECURSIVE MixedIssues(_, _, _)
MixedIssues(name, records, fields) ==
    IF fields = <<>> THEN <<>>
    ELSE LET real_types == RealTypes(records, Head(fields))
         IN (IF Cardinality(real_types) > 1
             THEN <<Issue("mixed", name, Head(fields), 0, 0, <<>>, SortedNames(real_types))>>
             ELSE <<>>)
            \o MixedIssues(name, records, Tail(fields))

\* The body of the loop over data.items(): the issues of one collection,
\* or raised when a statement raises.
CheckCollection(name, records) ==
    IF ~records.islist
    THEN [raised |-> FALSE, issues |-> <<Issue("not_array", name, "", 0, 0, <<>>, <<>>)>>]
    ELSE IF Len(records.items) = 0
    THEN [raised |-> FALSE, issues |-> <<Issue("empty", name, "", 0, 0, <<>>, <<>>)>>]
    ELSE LET rs == records.items
             non_dict == Cardinality({i \in 1..Len(rs) : ~IsDict(rs[i])})
         IN IF non_dict > 0
            THEN [raised |-> FALSE,
                  issues |-> <<Issue("non_object", name, "", non_dict, Len(rs), <<>>, <<>>)>>]
            ELSE LET missing_id == Cardinality({i \in 1..Len(rs) : "id" \notin DOMAIN rs[i]})
                     with_id == SelectSeq(rs, LAMBDA r : "id" \in DOMAIN r)
                     ids == [i \in 1..Len(with_id) |-> with_id[i]["id"]]
                     found == FindDupes(ids, 1, <<>>, <<>>)
                     fields == SetToSeq(UNION {DOMAIN rs[i] : i \in 1..Len(rs)})
                 IN IF found.raised THEN [raised |-> TRUE, issues |-> <<>>]
                    ELSE [raised |-> FALSE,
                          issues |->
                              (IF missing_id > 0
                               THEN <<Issue("missing_id", name, "", missing_id, Len(rs), <<>>, <<>>)>>
                               ELSE <<>>)
                              \o (IF found.dupes # <<>>
                                  THEN <<Issue("duplicate", name, "", 0, 0,
                                               SortedByStr(found.dupes), <<>>)>>
                                  ELSE <<>>)
                              \o MixedIssues(name, rs, fields)]

RECURSIVE CheckFrom(_, _, _)
CheckFrom(items, i, issues) ==
    IF i > Len(items) THEN [raised |-> FALSE, issues |-> issues]
    ELSE LET r == CheckCollection(items[i].name, items[i].records)
         IN IF r.raised THEN [raised |-> TRUE, issues |-> <<>>]
            ELSE CheckFrom(items, i + 1, issues \o r.issues)

validate_db(data) ==
    IF ~data.isdict
    THEN [raised |-> FALSE, issues |-> <<Issue("root", "", "", 0, 0, <<>>, <<>>)>>]
    ELSE IF data.items = <<>>
    THEN [raised |-> FALSE, issues |-> <<Issue("empty_db", "", "", 0, 0, <<>>, <<>>)>>]
    ELSE CheckFrom(data.items, 1, <<>>)

\* The documents the validator is given.
ShortLen == 2     \* lists of any entries are at most this long
LongLen == 4      \* lists of the records of LongRecords are at most this long

Absent == [t |-> "absent", n |-> 0, s |-> ""]

MkRecord(id, v) ==
    [k \in (IF id = Absent THEN {} ELSE {"id"}) \cup (IF v = Absent THEN {} ELSE {"v"}) |->
        IF k = "id" THEN id ELSE v]

LintRecords ==
    {MkRecord(id, v) : id \in {IntV(1), IntV(2), IntV(10), TrueV, StrV("a"), NoneV, ListV, Absent},
                       v \in {IntV(1), StrV("a"), NoneV, Absent}}

LongRecords ==
    {MkRecord(IntV(2), Absent), MkRecord(IntV(10), Absent), MkRecord(IntV(2), NoneV),
     MkRecord(IntV(10), StrV("a")), MkRecord(IntV(10), IntV(1))}

LintCollections ==
    {ScalarValue("x")}
    \cup {ListValue(l) : l \in SeqsUpTo(LintRecords \cup {[k \in {ScalarKey} |-> IntV(1)]}, ShortLen)}
    \cup {ListValue(l) : l \in UNION {[1..k -> LongRecords] : k \in (ShortLen + 1)..LongLen}}

OtherCollections ==
    {ListValue(<<MkRecord(IntV(1), Absent)>>),
     ListValue(<<MkRecord(IntV(1), Absent), MkRecord(IntV(1), Absent)>>)}

LintDocs ==
    {[isdict |-> FALSE, items |-> <<>>], [isdict |-> TRUE, items |-> <<>>]}
    \cup {[isdict |-> TRUE, items |-> <<[name |-> "users", records |-> c]>>] : c \in LintCollections}
    \cup {[isdict |-> TRUE,
           items |-> <<[name |-> "users", records |-> c], [name |-> "posts", records |-> o]>>] :
              c \in LintCollections, o \in OtherCollections}

InitValidate == Start("/srv/db.json", [exists |-> FALSE, content |-> <<>>], 0)

\* validate_db(data) is called, once.
Validate ==
    \E d \in LintDocs :
        /\ ~report.ran
        /\ report' = [ran |-> TRUE, data |-> d, raised |-> validate_db(d).raised,
                      issues |-> validate_db(d).issues]
        /\ UNCHANGED <<datafile, file, db, counters, req, resp, iofail, db0, issued, watch,
                       threads, gone, cache>>

NextValidate == Validate

SpecValidate == InitValidate /\ [][NextValidate]_vars

(***************************************************************************)
(* ThreadSafeCacheManager (cors_fix.py).  cache.entries is self._cache, an *)
(* OrderedDict, as the sequence of its entries in the order it keeps them, *)
(* oldest position first; cache.lock is the thread that holds self._lock,  *)
(* 0 for none; cache.now is time.time().  A thread that calls a method     *)
(* first waits at "with self._lock" (pc "acquire"), then runs the body.    *)
(* cache.uses and cache.evicted are history: the keys held, the least      *)
(* recently used first, where a get that returns the value and a set       *)
(* count as a use, and whether an entry has been evicted.  The hit, miss   *)
(* and eviction counts of CacheMetrics are left out: nothing reads them    *)
(* back into the cache.                                                    *)
(***************************************************************************)
CacheKeys == {"a", "b", "c", "d"}

FewKeys == {"a", "b", "c"}

Contains(entries, key) == \E i \in DOMAIN entries : entries[i].key = key

Position(entries, key) == CHOOSE i \in DOMAIN entries : entries[i].key = key

\* del self._cache[key], self._cache.pop(key, None)
Without(entries, key) == SelectSeq(entries, LAMBDA e : e.key # key)

\* self._cache.move_to_end(key)
move_to_end(entries, key) ==
    IF Contains(entries, key)
    THEN Append(Without(entries, key), entries[Position(entries, key)])
    ELSE entries

\* self._cache[key] = entry: a key the OrderedDict holds keeps its position,
\* a new key goes to the end.
SetItem(entries, key, entry) ==
    IF Contains(entries, key)
    THEN [entries EXCEPT ![Position(entries, key)] = entry]
    ELSE Append(entries, entry)

\* _evict_lru: popitem(last=False) takes the entry at the first position.
evict_lru(entries) == IF entries # <<>> THEN Tail(entries) ELSE entries

\* current_time > entry['expires_at']
Expired(entry, now) == now > entry.expires_at

\* time.time() + (ttl or self.default_ttl): a ttl of None or 0 is the default.
ExpiresAt(now, ttl, default_ttl) == now + (IF ttl = 0 THEN default_ttl ELSE ttl)

\* History: key has been used now.
Used(uses, key) == Append(SelectSeq(uses, LAMBDA k : k # key), key)

\* History: the keys of uses that entries still holds.
StillHeld(uses, entries) == SelectSeq(uses, LAMBDA k : Contains(entries, k))

\* Variant: the methods run without waiting for the lock.
CanAcquireAlways(lock, t) == TRUE

\* self._lock is an RLock: free, or held by the thread that asks.
CanAcquire(lock, t) == lock \in {0, t}

\* Leaving "with self._lock" and the method.
Release(c, t) == [c EXCEPT !.lock = 0, !.calls[t] = IdleCall]

NotCache ==
    <<datafile, file, db, counters, req, resp, iofail, db0, issued, watch, threads, gone,
      report>>

\* ThreadSafeCacheManager(default_ttl, max_size, cleanup_interval)
Construct(max_size) ==
    /\ ~cache.made
    /\ cache' = [NoCache EXCEPT !.made = TRUE, !.max_size = max_size,
                                !.default_ttl = DefaultTtl]
    /\ UNCHANGED NotCache

\* Thread t calls get, set, invalidate or clear, or is the timer's thread
\* that runs _cleanup_expired.
Call(t, op, key, ttl) ==
    /\ cache.made
    /\ cache.calls[t].pc = "idle"
    /\ cache' = [cache EXCEPT !.calls[t] =
                    [pc |-> "acquire", op |-> op,
                     key |-> IF op \in {"clear", "cleanup"} THEN "" ELSE key,
                     value |-> IF op = "set" THEN "v" ELSE "",
                     ttl |-> IF op = "set" THEN ttl ELSE 0]]
    /\ UNCHANGED NotCache

\* with self._lock:
Acquire(t) ==
    /\ cache.calls[t].pc = "acquire"
    /\ CanAcquire(cache.lock, t)
    /\ cache' = [cache EXCEPT !.lock = t, !.calls[t].pc = cache.calls[t].op]
    /\ UNCHANGED NotCache

\* get: a miss, an expired entry deleted, or a hit moved to the end.
CacheGet(t) ==
    /\ cache.calls[t].pc = "get"
    /\ LET key == cache.calls[t].key
           entries == cache.entries
       IN  cache' =
             IF ~Contains(entries, key)
             THEN Release(cache, t)
             ELSE IF Expired(entries[Position(entries, key)], cache.now)
             THEN Release([cache EXCEPT !.entries = Without(entries, key),
                                        !.uses = StillHeld(cache.uses, Without(entries, key))], t)
             ELSE Release([cache EXCEPT !.entries = move_to_end(entries, key),
                                        !.uses = Used(cache.uses, key)], t)
    /\ UNCHANGED NotCache

\* set, one turn of "while len(self._cache) >= self.max_size: self._evict_lru()".
CacheSetLoop(t) ==
    /\ cache.calls[t].pc = "set"
    /\ cache' =
         IF Len(cache.entries) >= cache.max_size
         THEN [cache EXCEPT !.entries = evict_lru(cache.entries),
                            !.uses = StillHeld(cache.uses, evict_lru(cache.entries)),
                            !.evicted = TRUE]
         ELSE [cache EXCEPT !.calls[t].pc = "store"]
    /\ UNCHANGED NotCache

\* set, after the loop: the entry is stored.
CacheSetStore(t) ==
    /\ cache.calls[t].pc = "store"
    /\ LET call == cache.calls[t]
           entry == [key |-> call.key, value |-> call.value,
                     expires_at |-> ExpiresAt(cache.now, call.ttl, cache.default_ttl)]
       IN  cache' = Release([cache EXCEPT !.entries = SetItem(cache.entries, call.key, entry),
                                          !.uses = Used(cache.uses, call.key)], t)
    /\ UNCHANGED NotCache

\* invalidate
CacheInvalidate(t) ==
    /\ cache.calls[t].pc = "invalidate"
    /\ cache' = Release([cache EXCEPT
                           !.entries = Without(cache.entries, cache.calls[t].key),
                           !.uses = StillHeld(cache.uses, Without(cache.entries, cache.calls[t].key))],
                        t)
    /\ UNCHANGED NotCache

\* clear
CacheClear(t) ==
    /\ cache.calls[t].pc = "clear"
    /\ cache' = Release([cache EXCEPT !.entries = <<>>, !.uses = <<>>], t)
    /\ UNCHANGED NotCache

\* _cleanup_expired: every entry that has expired is deleted.
cleanup_expired(entries, now) == SelectSeq(entries, LAMBDA e : ~Expired(e, now))

CacheCleanup(t) ==
    /\ cache.calls[t].pc = "cleanup"
    /\ cache' = Release([cache EXCEPT
                           !.entries = cleanup_expired(cache.entries, cache.now),
                           !.uses = StillHeld(cache.uses, cleanup_expired(cache.entries, cache.now))],
                        t)
    /\ UNCHANGED NotCache

\* Time passes.
Tick ==
    /\ cache.made
    /\ cache.now < MaxClock
    /\ cache' = [cache EXCEPT !.now = cache.now + 1]
    /\ UNCHANGED NotCache

CacheOps == {"get", "set", "invalidate", "clear", "cleanup"}

InitCache == Start("/srv/db.json", [exists |-> FALSE, content |-> <<>>], 0)

\* One thread, a cache of LargeSize entries.
ConstructLarge == Construct(LargeSize)

CallAlone == \E op \in CacheOps, key \in CacheKeys : Call(1, op, key, 0)

Locked == \E t \in Threads : Acquire(t)

Got == \E t \in Threads : CacheGet(t)

SetLoop == \E t \in Threads : CacheSetLoop(t)

SetStore == \E t \in Threads : CacheSetStore(t)

Invalidated == \E t \in Threads : CacheInvalidate(t)

Cleared == \E t \in Threads : CacheClear(t)

CleanedUp == \E t \in Threads : CacheCleanup(t)

NextCache ==
    \/ ConstructLarge
    \/ CallAlone
    \/ Locked
    \/ Got
    \/ SetLoop
    \/ SetStore
    \/ Invalidated
    \/ Cleared
    \/ CleanedUp
    \/ Tick

SpecCache == InitCache /\ [][NextCache]_vars

\* Several threads, a small cache.
ConstructSmall == \E m \in 1..SmallSize : Construct(m)

CallAny ==
    \E t \in Threads, op \in CacheOps, key \in FewKeys, ttl \in {0, LongTtl} : Call(t, op, key, ttl)

NextCacheThreads ==
    \/ ConstructSmall
    \/ CallAny
    \/ Locked
    \/ Got
    \/ SetLoop
    \/ SetStore
    \/ Invalidated
    \/ Cleared
    \/ CleanedUp
    \/ Tick

SpecCacheThreads == InitCache /\ [][NextCacheThreads]_vars


(***************************************************************************)
(* Properties of the request handlers.                                     *)
(***************************************************************************)
HasId(item) == IsDict(item) /\ "id" \in DOMAIN item

\* The entries of a collection; none when it is absent or not a list.
ItemsOf(d, c) == IF c \in DOMAIN d /\ d[c].islist THEN d[c].items ELSE <<>>

\* The ids the entries of a collection carry.
IdsIn(d, c) == {ItemsOf(d, c)[i]["id"] : i \in {j \in 1..Len(ItemsOf(d, c)) : HasId(ItemsOf(d, c)[j])}}

Last(s) == s[Len(s)]

\* The largest id the collection held when it was loaded, 0 when it held none.
LoadMax(c) ==
    IF IdsIn(db0, c) = {} THEN 0
    ELSE CHOOSE m \in IdsIn(db0, c) : \A x \in IdsIn(db0, c) : x <= m

\* The counter of a collection, 0 when it has none yet.
CounterOf(c) == IF c \in DOMAIN counters THEN counters[c] ELSE 0

\* The first entry of a list with the id, 0 when there is none.
FirstWithId(items, item_id) ==
    IF \E i \in 1..Len(items) : IdMatches(items[i], item_id)
    THEN CHOOSE i \in 1..Len(items) :
             IdMatches(items[i], item_id) /\ \A j \in 1..(i - 1) : ~IdMatches(items[j], item_id)
    ELSE 0

\* A body's fields with the id field set to n.
WithId(data, n) == [k \in DOMAIN data \cup {"id"} |-> IF k = "id" THEN n ELSE data[k]]

\* No two entries of one collection carry the same id.
DistinctIds(d) ==
    \A c \in DOMAIN d : \A i, j \in 1..Len(ItemsOf(d, c)) :
        (i # j /\ HasId(ItemsOf(d, c)[i]) /\ HasId(ItemsOf(d, c)[j]))
            => ItemsOf(d, c)[i]["id"] # ItemsOf(d, c)[j]["id"]

\* Two entries carry the same id, or both carry none.
SameId(a, b) ==
    /\ HasId(a) = HasId(b)
    /\ HasId(a) => a["id"] = b["id"]

\* What the request being answered wrote, and what a Get and a List issued
\* right after it answer.
WrittenCounter == CounterOf(req.collection)

WrittenId == IF req.op = "create" THEN WrittenCounter ELSE req.item_id

GetNow == get_item(req.collection, WrittenId).resp

ListPage(p) == list_items(req.collection, [k \in {"_page"} |-> Str(p)]).resp

ListNow == list_items(req.collection, NoArgs).resp

InItems(r, rec) == r.status = 200 /\ \E i \in 1..Len(r.items) : r.items[i] = rec

WrittenRecord == ItemsOf(db, req.collection)[FirstWithId(ItemsOf(db, req.collection), WrittenId)]

WrittenListed ==
    /\ \E p \in 1..(Len(ItemsOf(db, req.collection)) \div DefaultLimit + 1) :
           InItems(ListPage(p), WrittenRecord)
    /\ Len(ItemsOf(db, req.collection)) <= DefaultLimit => InItems(ListNow, WrittenRecord)

WrittenIdListed ==
    \E p \in 1..(Len(ItemsOf(db, req.collection)) \div DefaultLimit + 1) :
        \E i \in 1..Len(ListPage(p).items) : IdMatches(ListPage(p).items[i], WrittenId)

\* C1: every id a Create gives out on a collection is greater than every id a
\* Create gave out there before and than every id the collection held when it
\* was loaded, whatever was deleted since: ids are never reused.
IdsNeverReused ==
    /\ \A c \in ReqNames : \A k \in 1..Len(issued[c]) :
           /\ \A j \in 1..(k - 1) : issued[c][j] < issued[c][k]
           /\ \A x \in IdsIn(db0, c) : x < issued[c][k]
    /\ (req.op = "create" /\ resp.status = 201)
           => resp.item["id"] = Last(issued[req.collection])

\* A second Create on users, after the first created record and a loaded
\* record were deleted.
IdsNeverReusedWitness ==
    /\ req.op = "create" /\ resp.status = 201 /\ req.collection = "users"
    /\ Len(issued["users"]) = 2
    /\ issued["users"][1] \notin IdsIn(db, "users")
    /\ IdsIn(db0, "users") \ IdsIn(db, "users") # {}

\* C2: when the entries of each loaded collection carry pairwise distinct
\* ids, no sequence of Create, Update and Delete leaves a collection with two
\* entries of the same id.
UniqueIdsPreserved == DistinctIds(db0) => DistinctIds(db)

\* An Update whose body names the id of another stored record, after a Create
\* and a Delete.
UniqueIdsPreservedWitness ==
    /\ DistinctIds(db0)
    /\ req.op = "update" /\ resp.status = 200
    /\ HasId(req.body.data) /\ req.body.data["id"] # req.item_id
    /\ CountId(db, req.collection, req.body.data["id"]) = 1
    /\ issued[req.collection] # <<>>
    /\ \E g \in gone : g[1] = req.collection

\* C3: a Create, Update or Delete answered 400 or 404 leaves the document and
\* the counters as they were and does not write the file.
RejectedRequestChangesNothing ==
    [][(req'.op \in Mutations /\ resp'.status \in {400, 404})
           => (db' = db /\ counters' = counters /\ file' = file)]_vars

\* A Create with a body that is not an object, on a collection that is absent.
RejectedRequestWitness ==
    /\ req.op = "create" /\ resp = ErrorResponse(400, "JSON must be an object")
    /\ validate_collection_name(req.collection)
    /\ req.collection \notin DOMAIN db

\* C4: after a Create, Update or Delete answered with success, the file
\* parses to the in-memory document: same collections, same entries in the
\* same order, same fields.
SavedFileHoldsDocument ==
    (req.op \in Mutations /\ resp.status \in {200, 201})
        => /\ file.exists
           /\ JsonLoads(file.content).ok
           /\ JsonLoads(file.content).v = db
           /\ load_db(file) = db

\* A successful Create after a write that failed, with a second collection
\* in the document.
SavedFileWitness ==
    /\ req.op = "create" /\ resp.status = 201
    /\ iofail = 0
    /\ Cardinality(DOMAIN db) = 2
    /\ Len(ItemsOf(db, req.collection)) >= 3

\* C5: a Create, Update or Delete whose write fails answers 500 and keeps its
\* change: the created record is appended and the counter advanced, the
\* updated record replaces the old one, the deleted record is gone; a Get and
\* a List right after return the created or updated record, and not the
\* deleted one.
FailedWriteKeepsChange ==
    [][(req'.op \in Mutations /\ resp'.status = 500) =>
        LET c == req'.collection
            old == ItemsOf(db, c)
            new == ItemsOf(db', c)
            i == FirstWithId(old, req'.item_id)
        IN /\ resp' = ErrorResponse(500, "Failed to save data")
           /\ \A k \in DOMAIN db \ {c} : k \in DOMAIN db' /\ db'[k] = db[k]
           /\ req'.op = "create" =>
                /\ WrittenCounter' = CounterOf(c) + 1
                /\ new = Append(old, WithId(req'.body.data, CounterOf(c) + 1))
                /\ GetNow' = ItemResponse(200, Last(new))
                /\ WrittenRecord' = Last(new)
                /\ WrittenListed'
           /\ req'.op = "update" =>
                /\ counters' = counters
                /\ i # 0
                /\ new = [old EXCEPT ![i] = WithId(req'.body.data, req'.item_id)]
                /\ GetNow' = ItemResponse(200, new[i])
                /\ WrittenRecord' = new[i]
                /\ WrittenListed'
           /\ req'.op = "delete" =>
                /\ counters' = counters
                /\ i # 0
                /\ new = SubSeq(old, 1, i - 1) \o SubSeq(old, i + 1, Len(old))
                /\ CountId(db, c, req'.item_id) = 1 =>
                     /\ GetNow' = ErrorResponse(404, "Item not found")
                     /\ ~WrittenIdListed'
    ]_vars

\* A Create answered 500 that left half a document in the file.
FailedWriteWitness ==
    /\ req.op = "create" /\ resp.status = 500
    /\ file.exists /\ ~JsonLoads(file.content).ok
    /\ Len(ItemsOf(db, req.collection)) >= 2
    /\ Last(ItemsOf(db, req.collection))["id"] = counters[req.collection]

\* C6: an Update changes the id of no entry; when it succeeds, the record it
\* returns is the one it stored in place of the first entry with the path id,
\* and that record's id is the path id whatever the body says.
UpdateKeepsPathId ==
    [][req'.op = "update" =>
        LET c == req'.collection
            old == ItemsOf(db, c)
            new == ItemsOf(db', c)
            i == FirstWithId(old, req'.item_id)
        IN /\ DOMAIN db' = DOMAIN db
           /\ \A k \in DOMAIN db \ {c} : db'[k] = db[k]
           /\ Len(new) = Len(old)
           /\ \A j \in 1..Len(old) : SameId(old[j], new[j])
           /\ resp'.status = 200 =>
                /\ i # 0
                /\ HasId(resp'.item) /\ resp'.item["id"] = req'.item_id
                /\ new[i] = resp'.item
                /\ \A j \in 1..Len(old) : j # i => new[j] = old[j]
    ]_vars

\* A successful Update whose body carries another id than the path.
UpdateKeepsPathIdWitness ==
    /\ req.op = "update" /\ resp.status = 200
    /\ HasId(req.body.data) /\ req.body.data["id"] # req.item_id
    /\ resp.item["id"] = req.item_id

\* C7: a Create that succeeds answers 201; the record it returns is appended
\* to the collection, the entries already there are unchanged, and its id is
\* the one the counter allocates, whatever id the body carries.
CreateAllocatesId ==
    [][(req'.op = "create" /\ resp'.status < 400) =>
        LET c == req'.collection
            old == ItemsOf(db, c)
            new == ItemsOf(db', c)
        IN /\ resp'.status = 201
           /\ Len(new) = Len(old) + 1
           /\ SubSeq(new, 1, Len(old)) = old
           /\ Last(new) = resp'.item
           /\ counters'[c] = CounterOf(c) + 1
           /\ resp'.item = WithId(req'.body.data, CounterOf(c) + 1)
    ]_vars

\* A Create whose body carries the id of a stored record.
CreateAllocatesIdWitness ==
    /\ req.op = "create" /\ resp.status = 201
    /\ HasId(req.body.data)
    /\ resp.item["id"] # req.body.data["id"]
    /\ CountId(db, req.collection, req.body.data["id"]) = 1

\* C8: the k-th id allocated on a collection since load is the largest id the
\* collection held at load (0 when it was empty or absent) plus k; the first
\* record of a collection that was absent gets id 1.
AllocationFollowsLoadMax ==
    /\ \A c \in ReqNames : \A k \in 1..Len(issued[c]) : issued[c][k] = LoadMax(c) + k
    /\ (req.op = "create" /\ resp.status = 201) =>
           /\ resp.item["id"] = LoadMax(req.collection) + Len(issued[req.collection])
           /\ req.collection \in DOMAIN db
           /\ (req.collection \notin DOMAIN db0 /\ Len(issued[req.collection]) = 1)
                  => resp.item["id"] = 1

\* A Create on a collection loaded with its largest id not in the last entry.
AllocationWitness ==
    /\ req.op = "create" /\ resp.status = 201
    /\ Len(ItemsOf(db0, req.collection)) = 2
    /\ HasId(ItemsOf(db0, req.collection)[1]) /\ HasId(ItemsOf(db0, req.collection)[2])
    /\ ItemsOf(db0, req.collection)[1]["id"] > ItemsOf(db0, req.collection)[2]["id"]

\* C9: once a Delete of an id has succeeded, a Get of that id answers 404
\* 'Item not found' as long as no Create on the collection came in between.
DeletedIdNotFound ==
    (req.op = "get" /\ \E g \in gone : g[1] = req.collection /\ g[2] = req.item_id)
        => resp = ErrorResponse(404, "Item not found")

\* The same, for a Delete that ran when one entry of the collection carried
\* the id.
DeletedSingleIdNotFound ==
    (req.op = "get" /\ \E g \in gone : g[1] = req.collection /\ g[2] = req.item_id /\ g[3] = 1)
        => resp = ErrorResponse(404, "Item not found")

\* C10: a Get, Update, Delete or List on a collection with a valid name that
\* the document does not hold answers 404 'Collection not found', whatever
\* the id and the body.
AbsentCollectionNotFound ==
    (/\ req.op \in {"get", "update", "delete", "list"}
     /\ validate_collection_name(req.collection)
     /\ req.collection \notin DOMAIN db)
        => resp = ErrorResponse(404, "Collection not found")

\* An Update with a body that does not parse, on a collection that is absent
\* while another one is present.
AbsentCollectionWitness ==
    /\ req.op = "update" /\ req.body.parsed = "error"
    /\ req.collection \notin DOMAIN db
    /\ DOMAIN db # {}
    /\ resp.status = 404

\* A name as the interface describes it: 1 to 50 characters, each a letter,
\* a digit, a hyphen or an underscore.
WellFormedName(s) ==
    /\ Len(s) >= 1 /\ Len(s) <= MaxNameLen
    /\ \A i \in 1..Len(s) : IsNameChar(SubSeq(s, i, i))

\* C11: a List, Get, Create, Update or Delete on a name that is empty, longer
\* than 50 characters or holds a character outside letters, digits, hyphen
\* and underscore answers 400 'Invalid collection name', whether or not the
\* document holds the name, and adds no collection of that name.
InvalidNameRejected ==
    (req.op # "none" /\ ~WellFormedName(req.collection))
        => /\ resp = ErrorResponse(400, "Invalid collection name")
           /\ req.collection \in DOMAIN db => req.collection \in DOMAIN db0

\* The same, for names that do not end in a newline.
InvalidNameRejectedUnlessNewline ==
    (/\ req.op # "none" /\ ~WellFormedName(req.collection)
     /\ ~(Len(req.collection) >= 2 /\ SubSeq(req.collection, Len(req.collection), Len(req.collection)) = "\n"))
        => /\ resp = ErrorResponse(400, "Invalid collection name")
           /\ req.collection \in DOMAIN db => req.collection \in DOMAIN db0

\* The threads that have returned a success from the handler op.
Succeeded(op) ==
    {t \in Threads : threads[t].pc = "done" /\ threads[t].op = op /\ threads[t].resp.status \in {200, 201}}

AllDone == \A t \in Threads : threads[t].pc = "done"

\* C12: two Creates on one collection served at once return different ids,
\* and both returned records are in the collection once both have returned.
ConcurrentCreatesDistinct ==
    \A t, u \in Succeeded("create") :
        (t # u /\ threads[t].collection = threads[u].collection) =>
            /\ threads[t].resp.item["id"] # threads[u].resp.item["id"]
            /\ \E k \in 1..Len(ItemsOf(db, threads[t].collection)) :
                   ItemsOf(db, threads[t].collection)[k] = threads[t].resp.item

\* The record a thread returned is in its collection.
Kept(t) ==
    \E k \in 1..Len(ItemsOf(db, threads[t].collection)) :
        ItemsOf(db, threads[t].collection)[k] = threads[t].resp.item

\* Another thread changed or removed the record with this id, by its id.
Retargeted(t, id) ==
    \E u \in (Succeeded("update") \cup Succeeded("delete")) \ {t} :
        threads[u].collection = threads[t].collection /\ threads[u].item_id = id

\* C13: Creates, Updates and Deletes on one collection served at once act as
\* if one ran after the other: an Update or Delete replaces or removes only
\* an entry that carries the id it was given; once all have returned, every
\* record a Create or Update returned is in the collection unless another
\* request changed or removed it by its id, and the file parses to the
\* in-memory document.
ConcurrentMutationsSerial ==
    /\ \A t \in Succeeded("update") \cup Succeeded("delete") :
           IdMatches(threads[t].hit, threads[t].item_id)
    /\ AllDone =>
           /\ \A t \in Succeeded("create") \cup Succeeded("update") :
                  Kept(t) \/ Retargeted(t, threads[t].resp.item["id"])
           /\ (\E t \in Threads : threads[t].resp.status \in {200, 201}) =>
                  /\ JsonLoads(file.content).ok
                  /\ JsonLoads(file.content).v = db

\* The parts of it, one by one.
ConcurrentHitsOwnId ==
    \A t \in Succeeded("update") \cup Succeeded("delete") :
        IdMatches(threads[t].hit, threads[t].item_id)

ConcurrentNothingLost ==
    AllDone => \A t \in Succeeded("create") \cup Succeeded("update") :
                   Kept(t) \/ Retargeted(t, threads[t].resp.item["id"])

ConcurrentFileCurrent ==
    (AllDone /\ \E t \in Threads : threads[t].resp.status \in {200, 201}) =>
        /\ JsonLoads(file.content).ok
        /\ JsonLoads(file.content).v = db

\* The watcher has reloaded the file as it is now.
Reloaded ==
    /\ watch.loaded /\ ~watch.stale
    /\ JsonLoads(file.content).ok /\ JsonLoads(file.content).v = watch.data

\* C14: once the watcher has reloaded a changed file that holds a document,
\* the document the handlers use is the file's content and the counters are
\* those of that content, so a Get answers with the record the file holds.
ReloadReplacesDocument ==
    Reloaded =>
        /\ db = watch.data
        /\ counters = InitCounters(watch.data)
        /\ (req.op = "get" /\ FirstWithId(ItemsOf(watch.data, req.collection), req.item_id) # 0)
               => resp = ItemResponse(200, ItemsOf(watch.data, req.collection)
                                               [FirstWithId(ItemsOf(watch.data, req.collection), req.item_id)])

\* The keys of a query that constrain: not starting with "_", at most 50
\* characters long.
ConstraintKeys(args) ==
    {k \in DOMAIN args : Len(k) <= MaxKeyLen /\ (Len(k) = 0 \/ SubSeq(k, 1, 1) # "_")}

\* The entry is a record whose fields, as strings, equal the values asked for.
Satisfies(item, args) ==
    \A k \in ConstraintKeys(args) : IsDict(item) /\ StrField(item, k) = args[k]

\* The entries that satisfy the query, in their order.
Matching(items, args) ==
    LET Test(i) == Satisfies(i, args) IN SelectSeq(items, Test)

\* The entries of the listed collection that satisfy the query being answered.
Matched == Matching(ItemsOf(db, req.collection), req.args)

\* A List on a collection that is a list.
Listing ==
    /\ req.op = "list"
    /\ validate_collection_name(req.collection)
    /\ req.collection \in DOMAIN db /\ db[req.collection].islist

Least(a, b) == IF a < b THEN a ELSE b

\* The value of a query key is an integer within the bounds.
ValidParam(args, key, lo, hi) ==
    /\ key \in DOMAIN args
    /\ ~ParseInt(args[key]).none
    /\ ParseInt(args[key]).v >= lo /\ ParseInt(args[key]).v <= hi

IntParam(args, key) == ParseInt(args[key]).v

PageSlice ==
    /\ (Listing /\ ValidParam(req.args, "_page", MinPage, MaxPage)
                /\ ValidParam(req.args, "_limit", MinLimit, MaxLimit)) =>
           resp = ListResponse(SubSeq(Matched,
                      (IntParam(req.args, "_page") - 1) * IntParam(req.args, "_limit") + 1,
                      Least(IntParam(req.args, "_page") * IntParam(req.args, "_limit"), Len(Matched))))
    /\ (Listing /\ "_page" \notin DOMAIN req.args
                /\ ValidParam(req.args, "_limit", MinLimit, MaxLimit)) =>
           resp = ListResponse(SubSeq(Matched, 1, Least(IntParam(req.args, "_limit"), Len(Matched))))

\* The second page of two, on a filtered list that ends within it.
PageSliceWitness ==
    /\ Listing
    /\ "_page" \in DOMAIN req.args /\ req.args["_page"] = "2"
    /\ "_limit" \in DOMAIN req.args /\ req.args["_limit"] = "2"
    /\ ConstraintKeys(req.args) # {}
    /\ Len(Matched) < Len(ItemsOf(db, req.collection))
    /\ Len(resp.items) = 1

\* Every _page or _limit the query carries is no integer or out of range.
BadPaging(args) ==
    /\ "_page" \in DOMAIN args \/ "_limit" \in DOMAIN args
    /\ "_page" \in DOMAIN args => ~ValidParam(args, "_page", MinPage, MaxPage)
    /\ "_limit" \in DOMAIN args => ~ValidParam(args, "_limit", MinLimit, MaxLimit)

\* C17: a List whose _page or _limit is no integer or out of range answers
\* 200 with all the satisfying entries, as if no page had been asked for.
BadPagingReturnsAll ==
    (Listing /\ BadPaging(req.args)) => resp = ListResponse(Matched)

\* The part of it that concerns the status only.
BadPagingNoError ==
    (Listing /\ BadPaging(req.args)) => resp.status = 200

UpdateReplacesWhole ==
    [][(req'.op = "update" /\ resp'.status = 200) =>
        LET c == req'.collection
            old == ItemsOf(db, c)
            new == ItemsOf(db', c)
            i == FirstWithId(old, req'.item_id)
        IN /\ i # 0
           /\ Len(new) = Len(old)
           /\ DOMAIN new[i] = DOMAIN req'.body.data \cup {"id"}
           /\ new[i]["id"] = req'.item_id
           /\ \A k \in DOMAIN req'.body.data \ {"id"} : new[i][k] = req'.body.data[k]
           /\ \A k \in DOMAIN old[i] \ (DOMAIN req'.body.data \cup {"id"}) : k \notin DOMAIN new[i]
           /\ \A j \in 1..Len(old) : j # i => new[j] = old[j]
           /\ resp' = ItemResponse(200, new[i])
    ]_vars

\* An Update with a body without name, on a loaded record that had one, in
\* a list of two whose other entry is as loaded.
UpdateReplacesWholeWitness ==
    /\ req.op = "update" /\ resp.status = 200
    /\ "name" \notin DOMAIN resp.item
    /\ Len(ItemsOf(db0, req.collection)) = 2 /\ Len(ItemsOf(db, req.collection)) = 2
    /\ \E i, j \in 1..2 :
           /\ i # j
           /\ ItemsOf(db, req.collection)[i] = resp.item
           /\ HasId(ItemsOf(db0, req.collection)[i])
           /\ "name" \in DOMAIN ItemsOf(db0, req.collection)[i]
           /\ ItemsOf(db, req.collection)[j] = ItemsOf(db0, req.collection)[j]

\* C20: a successful Delete removes one entry, the first that carries the
\* path id, keeps the others in their order, and answers 200 with the removed
\* record; a Delete of an id that no entry of the list carries answers 404
\* 'Item not found' and removes nothing.
DeleteRemovesOne ==
    [][req'.op = "delete" =>
        LET c == req'.collection
            old == ItemsOf(db, c)
            new == ItemsOf(db', c)
            i == FirstWithId(old, req'.item_id)
        IN /\ resp'.status = 200 =>
                /\ i # 0
                /\ IdMatches(old[i], req'.item_id)
                /\ Len(new) = Len(old) - 1
                /\ \A j \in 1..Len(new) : new[j] = old[IF j < i THEN j ELSE j + 1]
                /\ resp' = ItemResponse(200, old[i])
           /\ (/\ validate_collection_name(c)
               /\ c \in DOMAIN db /\ db[c].islist
               /\ i = 0) =>
                /\ resp' = ErrorResponse(404, "Item not found")
                /\ db' = db
    ]_vars

\* A Delete of the first of two loaded records.
DeleteRemovesOneWitness ==
    /\ req.op = "delete" /\ resp.status = 200
    /\ Len(ItemsOf(db0, req.collection)) = 2
    /\ ItemsOf(db, req.collection) = <<ItemsOf(db0, req.collection)[2]>>
    /\ resp.item = ItemsOf(db0, req.collection)[1]
(***************************************************************************)
(* C21: every response, of every route and for success and error alike,    *)
(* carries the header Access-Control-Allow-Origin with the value "*".      *)
(* The views of create_app return what jsonify made, so this fails on the  *)
(* first answer.                                                           *)
(***************************************************************************)
AllowsAnyOrigin(r) ==
    /\ "Access-Control-Allow-Origin" \in DOMAIN r.headers
    /\ r.headers["Access-Control-Allow-Origin"] = "*"

ResponsesAllowAnyOrigin == req # NoRequest => AllowsAnyOrigin(resp)

\* What the middleware would give, were a view wrapped in it.
WrappedAllowsAnyOrigin == req # NoRequest => AllowsAnyOrigin(cors_middleware(resp))

(***************************************************************************)
(* C22: a top-level value that is no list is read-only. As stated, every   *)
(* List, Get, Create, Update and Delete on it answers 400 'Collection is   *)
(* not a list', and its value in the document stays the one loaded.        *)
(***************************************************************************)
Scalars == {c \in DOMAIN db0 : ~db0[c].islist}

ScalarsKept == \A c \in Scalars : c \in DOMAIN db /\ db[c] = db0[c]

OnScalar == req.op # "none" /\ req.collection \in Scalars

Validated == report.ran /\ report.data.isdict /\ report.data.items # <<>>

Given == {report.data.items[i] : i \in 1..Len(report.data.items)}

Entries(c) == c.records.items

Objects(c) == {i \in 1..Len(Entries(c)) : IsDict(Entries(c)[i])}

AllObjects(c) == c.records.islist /\ Len(Entries(c)) > 0 /\ Objects(c) = 1..Len(Entries(c))

WithIdField(c) == {i \in Objects(c) : "id" \in DOMAIN Entries(c)[i]}

\* The id values held by more than one record.
DupIds(c) ==
    {Entries(c)[i]["id"] : i \in {j \in WithIdField(c) :
        \E k \in WithIdField(c) \ {j} : Entries(c)[k]["id"] = Entries(c)[j]["id"]}}

\* The same, with the equality of Python, under which True is 1.
PyDupIds(c) ==
    {Entries(c)[i]["id"] : i \in {j \in WithIdField(c) :
        \E k \in WithIdField(c) \ {j} : PyEq(Entries(c)[k]["id"], Entries(c)[j]["id"])}}

FieldsOf(c) == UNION {DOMAIN Entries(c)[i] : i \in Objects(c)}

NonNullTypes(c, f) ==
    {Entries(c)[i][f].t : i \in {j \in Objects(c) : f \in DOMAIN Entries(c)[j]}} \ {"NoneType"}

IssuesOf(kind, c) ==
    {k \in 1..Len(report.issues) : report.issues[k].kind = kind /\ report.issues[k].name = c.name}

Reported(kind, c) == IssuesOf(kind, c) # {}

Flagged(c, f) == \E k \in IssuesOf("mixed", c) : report.issues[k].field = f

HasProblem(c) ==
    \/ ~c.records.islist
    \/ Len(Entries(c)) = 0
    \/ Objects(c) # 1..Len(Entries(c))
    \/ WithIdField(c) # Objects(c)
    \/ DupIds(c) # {}
    \/ \E f \in FieldsOf(c) : Cardinality(NonNullTypes(c, f)) > 1

(***************************************************************************)
(* C23: for every collection of a non-empty document, validate_db reports  *)
(* each kind of problem present in it, whatever other kinds are present:   *)
(* not a list, empty, entries that are no objects, records without id,     *)
(* duplicate ids, fields of mixed types; and a document with no problem    *)
(* gets the empty list.                                                    *)
(***************************************************************************)
EveryProblemReported ==
    Validated =>
        /\ ~report.raised
        /\ \A c \in Given :
              /\ ~c.records.islist => Reported("not_array", c)
              /\ (c.records.islist /\ Len(Entries(c)) = 0) => Reported("empty", c)
              /\ (c.records.islist /\ Objects(c) # 1..Len(Entries(c))) => Reported("non_object", c)
              /\ (c.records.islist /\ WithIdField(c) # Objects(c)) => Reported("missing_id", c)
              /\ (c.records.islist /\ DupIds(c) # {}) => Reported("duplicate", c)
              /\ c.records.islist =>
                    \A f \in FieldsOf(c) : Cardinality(NonNullTypes(c, f)) > 1 => Flagged(c, f)
        /\ (\A c \in Given : ~HasProblem(c)) => report.issues = <<>>

\* What does hold: a report that is returned names, for a value that is no
\* list, an empty list or a list with an entry that is no object, that one
\* problem; and for a list of objects each of the three others.
FirstProblemReported ==
    (Validated /\ ~report.raised) =>
        /\ \A c \in Given :
              /\ ~c.records.islist => Reported("not_array", c)
              /\ (c.records.islist /\ Len(Entries(c)) = 0) => Reported("empty", c)
              /\ (c.records.islist /\ Objects(c) # 1..Len(Entries(c))) => Reported("non_object", c)
              /\ AllObjects(c) =>
                    /\ WithIdField(c) # Objects(c) <=> Reported("missing_id", c)
                    /\ PyDupIds(c) # {} <=> Reported("duplicate", c)
                    /\ \A f \in FieldsOf(c) :
                          Cardinality(NonNullTypes(c, f)) > 1 <=> Flagged(c, f)
        /\ (\A c \in Given : ~HasProblem(c)) => report.issues = <<>>

(***************************************************************************)
(* C24: validate_db flags a field of a collection as mixed-type if and     *)
(* only if the field's values across the collection's records have at      *)
(* least two distinct types other than null; a field that is null or       *)
(* absent in some records and of one type in the others is never flagged.  *)
(***************************************************************************)
MixedFlaggedExactly ==
    Validated =>
        \A c \in Given :
            c.records.islist =>
                \A f \in FieldsOf(c) : Flagged(c, f) <=> Cardinality(NonNullTypes(c, f)) > 1

\* The second half on its own: a field of at most one type other than null
\* is never flagged.
NullableNeverFlagged ==
    Validated =>
        \A c \in Given :
            c.records.islist =>
                \A f \in FieldsOf(c) : Flagged(c, f) => Cardinality(NonNullTypes(c, f)) > 1

\* The first half, for the reports that are returned on lists of objects.
MixedFlaggedInRecordLists ==
    (Validated /\ ~report.raised) =>
        \A c \in Given :
            AllObjects(c) =>
                \A f \in FieldsOf(c) : Flagged(c, f) <=> Cardinality(NonNullTypes(c, f)) > 1

(***************************************************************************)
(* C25: for a collection of object records in which some id value occurs   *)
(* more than once, validate_db reports exactly one duplicate-id issue for  *)
(* the collection, listing each duplicated id once, in the order of        *)
(* sorted(key=str); a collection with pairwise distinct ids gets no        *)
(* duplicate-id issue, whatever the other collections hold.                *)
(***************************************************************************)
ListsOnceSorted(ids, S) ==
    /\ {ids[i] : i \in 1..Len(ids)} = S
    /\ Len(ids) = Cardinality(S)
    /\ \A i, j \in 1..Len(ids) : i < j => ~StrLess(StrOf(ids[j]), StrOf(ids[i]))

DuplicateIdsReportedOnce ==
    Validated =>
        \A c \in Given :
            AllObjects(c) =>
                IF DupIds(c) # {}
                THEN /\ Cardinality(IssuesOf("duplicate", c)) = 1
                     /\ \A k \in IssuesOf("duplicate", c) :
                           ListsOnceSorted(report.issues[k].ids, DupIds(c))
                ELSE IssuesOf("duplicate", c) = {}

\* What does hold: the same for the reports that are returned, an id being
\* duplicated when two records hold values that Python finds equal, and the
\* issue listing one value of each such class.
DuplicateIdsReportedWhenReturned ==
    (Validated /\ ~report.raised) =>
        \A c \in Given :
            AllObjects(c) =>
                IF PyDupIds(c) # {}
                THEN /\ Cardinality(IssuesOf("duplicate", c)) = 1
                     /\ \A k \in IssuesOf("duplicate", c) :
                           LET ids == report.issues[k].ids
                           IN /\ \A d \in PyDupIds(c) :
                                    Cardinality({i \in 1..Len(ids) : PyEq(ids[i], d)}) = 1
                              /\ \A i \in 1..Len(ids) : ids[i] \in PyDupIds(c)
                              /\ \A i, j \in 1..Len(ids) :
                                    i < j => ~StrLess(StrOf(ids[j]), StrOf(ids[i]))
                ELSE IssuesOf("duplicate", c) = {}

(***************************************************************************)
(* C26: a filter constraint key=value keeps a record without a field named *)
(* key if and only if value is the empty string, and a record with the     *)
(* field if and only if the string form of its value equals value. The     *)
(* answer to a List with one constraint is a run of the records kept, and  *)
(* all of them when the collection fits a page and no paging is asked for. *)
(***************************************************************************)
KeptBy(item, key, value) ==
    /\ IsDict(item)
    /\ IF key \in DOMAIN item
       THEN (IF key = "id" THEN Str(item[key]) ELSE item[key]) = value
       ELSE value = ""

KeptOf(items, key, value) == LET Test(i) == KeptBy(i, key, value) IN SelectSeq(items, Test)

AbsentFieldIsEmptyString ==
    (Listing /\ Cardinality(ConstraintKeys(req.args)) = 1) =>
        LET key == CHOOSE k \in ConstraintKeys(req.args) : TRUE
            kept == KeptOf(ItemsOf(db, req.collection), key, req.args[key])
        IN /\ resp.status = 200
           /\ \E o \in 0..Len(kept) :
                  /\ o + Len(resp.items) <= Len(kept)
                  /\ resp.items = SubSeq(kept, o + 1, o + Len(resp.items))
           /\ ("_page" \notin DOMAIN req.args /\ "_limit" \notin DOMAIN req.args
               /\ Len(kept) <= DefaultLimit) => resp.items = kept

\* The constraint id= with the empty value keeps the record that has no id,
\* and drops the entry that is no record.
AbsentFieldWitness ==
    /\ Listing /\ req.args = [id |-> ""]
    /\ Len(ItemsOf(db, req.collection)) = 2
    /\ resp.items = <<[name |-> "a"]>>

(***************************************************************************)
(* C27: a List or a Get, whatever the collection, the id, the constraints, *)
(* the paging and the outcome, leaves the document, the counters and the   *)
(* backing file as they were: the filter and the slice work on a copy.     *)
(***************************************************************************)
ReadsChangeNothing ==
    [][(req = NoRequest /\ req'.op \in {"list", "get"})
          => (db' = db /\ counters' = counters /\ file' = file)]_vars

\* A List whose answer leaves out entries of the collection, which still
\* holds them all.
ReadsChangeNothingWitness ==
    /\ Listing /\ resp.status = 200
    /\ ConstraintKeys(req.args) # {} /\ "_limit" \in DOMAIN req.args
    /\ Len(resp.items) >= 1
    /\ Len(resp.items) < Len(ItemsOf(db, req.collection))
    /\ db = db0

(***************************************************************************)
(* C28: a Create, Update or Delete on collection c leaves the value and    *)
(* the counter of every other collection as they were, and adds or removes *)
(* no top-level key but c; c is added only by a Create on an absent        *)
(* collection, and never removed.                                          *)
(***************************************************************************)
OthersKept(before, after, c) ==
    /\ DOMAIN after \ {c} = DOMAIN before \ {c}
    /\ \A k \in DOMAIN before \ {c} : after[k] = before[k]
    /\ c \in DOMAIN before => c \in DOMAIN after

MutationTouchesOwnCollection ==
    [][(req = NoRequest /\ req'.op \in Mutations)
          => /\ OthersKept(db, db', req'.collection)
             /\ OthersKept(counters, counters', req'.collection)
             /\ (req'.collection \in DOMAIN db' \ DOMAIN db) => req'.op = "create"]_vars

\* A record is written to users while posts, created earlier, holds one.
MutationTouchesOwnCollectionWitness ==
    /\ req.op \in Mutations /\ req.collection = "users" /\ resp.status \in {200, 201}
    /\ "posts" \in DOMAIN db /\ "posts" \notin DOMAIN db0
    /\ Len(db["posts"].items) = 1 /\ counters["posts"] = 1

(***************************************************************************)
(* C29: Update answers by the first check that fails, in the order: name   *)
(* well-formed (400), collection present (404), collection a list (400),   *)
(* body a JSON object (400), a record with the path id present (404).      *)
(* Create checks the name, then the body, then that a collection that is   *)
(* present is a list, and adds a missing collection only when the body     *)
(* passed its check.                                                       *)
(***************************************************************************)
BodyErrors ==
    {"Content-Type must be application/json", "JSON parsing error", "Invalid or empty JSON",
     "JSON must be an object"}

BodyIsObject(body) == body.is_json /\ body.parsed = "object"

\* The answer of an Update with request r on document d is the one due.
UpdateAnswer(d, r, a) ==
    IF ~WellFormedName(r.collection) THEN a = ErrorResponse(400, "Invalid collection name")
    ELSE IF r.collection \notin DOMAIN d THEN a = ErrorResponse(404, "Collection not found")
    ELSE IF ~d[r.collection].islist THEN a = ErrorResponse(400, "Collection is not a list")
    ELSE IF ~BodyIsObject(r.body) THEN a.status = 400 /\ a.error \in BodyErrors
    ELSE IF CountId(d, r.collection, r.item_id) = 0 THEN a = ErrorResponse(404, "Item not found")
    ELSE a.status \in {200, 500}

CreateAnswer(d, r, a) ==
    IF ~WellFormedName(r.collection) THEN a = ErrorResponse(400, "Invalid collection name")
    ELSE IF ~BodyIsObject(r.body) THEN a.status = 400 /\ a.error \in BodyErrors
    ELSE IF r.collection \in DOMAIN d /\ ~d[r.collection].islist
    THEN a = ErrorResponse(400, "Collection is not a list")
    ELSE a.status \in {201, 500}

ChecksInOrder ==
    [][/\ (req = NoRequest /\ req'.op = "update") => UpdateAnswer(db, req', resp')
       /\ (req = NoRequest /\ req'.op = "create") =>
             /\ CreateAnswer(db, req', resp')
             /\ (req'.collection \in DOMAIN db' \ DOMAIN db) =>
                   (WellFormedName(req'.collection) /\ BodyIsObject(req'.body))]_vars

\* An Update with a body that is no object, on a value that is no list, is
\* answered for the value.
ChecksInOrderWitness ==
    /\ req.op = "update" /\ req.collection = "posts" /\ ~BodyIsObject(req.body)
    /\ resp = ErrorResponse(400, "Collection is not a list")

(***************************************************************************)
(* C30: when the file's mtime has changed and the file does not parse, the *)
(* watcher does not fail and keeps the data it had, and it tries again at  *)
(* the next tick, so that a file that is complete at a later tick is       *)
(* reloaded in the end: it does not stay for ever that the watcher's last  *)
(* parse failed while the file holds a document.                           *)
(***************************************************************************)
CompleteFileReloaded == <>[](~(watch.failed /\ JsonLoads(file.content).ok))

\* The first half on its own: a look at a file that does not parse leaves
\* what the watcher has loaded as it was.
FailedLoadKeepsData ==
    [][(~watch.failed /\ watch'.failed)
          => (watch'.loaded = watch.loaded /\ watch'.data = watch.data)]_vars

\* The retry on its own: after such a look the file is still due to be
\* loaded.
FailedLoadStaysDue ==
    [][(~watch.failed /\ watch'.failed) => watch'.stale]_vars

(***************************************************************************)
(* C31: when set evicts because the cache holds max_size entries, the      *)
(* entry it evicts is the least recently used one, a get that returns the  *)
(* value and a set of the key, new or already held, being the uses.        *)
(***************************************************************************)
SetEvicts ==
    \E t \in Threads :
        /\ cache.calls[t].pc = "set"
        /\ cache'.calls[t].pc = "set"
        /\ Len(cache.entries) >= cache.max_size
        /\ cache'.entries # cache.entries

EvictsLeastRecentlyUsed ==
    [][SetEvicts => (cache.uses # <<>> /\ cache.entries[1].key = cache.uses[1])]_vars

(***************************************************************************)
(* C32: a cache constructed with max_size of at least 1 holds at most      *)
(* max_size entries, whatever set, get, invalidate, clear and              *)
(* _cleanup_expired calls the threads make and however they interleave,    *)
(* at every step of every call.                                            *)
(***************************************************************************)
CacheWithinMaxSize ==
    (cache.made /\ cache.max_size >= 1) => Len(cache.entries) <= cache.max_size

\* A cache of more than one entry is full after an eviction; one thread
\* holds the lock in set, about to evict for a key the cache does not hold,
\* and the other waits for the lock with a set of its own.
CacheWithinMaxSizeWitness ==
    /\ cache.made /\ cache.evicted
    /\ cache.max_size > 1
    /\ Len(cache.entries) = cache.max_size
    /\ \E t \in Threads, u \in Threads :
          /\ t # u
          /\ cache.lock = t
          /\ cache.calls[t].pc = "set" /\ ~Contains(cache.entries, cache.calls[t].key)
          /\ cache.calls[u].pc = "acquire" /\ cache.calls[u].op = "set"

====
